---- MODULE Spec2Model ----
(***************************************************************************)
(* Model of the chunking, embedding-cache, ingestion and query pipeline of *)
(* mcp-vector-indexer (embedder.py, search.py).                            *)
(*                                                                         *)
(* Texts are sequences of characters.  Similarities are integers in tenths *)
(* (similarity 9 stands for 0.9).  The embedding provider and the vector   *)
(* store are external; the provider is a deterministic function of the     *)
(* text, the store answers a nearest-neighbour query from a fixed ranking. *)
(***************************************************************************)
EXTENDS Integers, Sequences, FiniteSets, TLC

(***************************************************************************)
(* Bounds of the model.                                                    *)
(***************************************************************************)
MaxTextLen == 4
MaxChunkSize == 3
MaxChunks == 5
MaxCalls == 4
MaxHits == 2
MaxDist == 2
MaxN == 2
MaxQueries == 2
MaxPool == 3
MaxDocs == 2
MaxFiles == 2
MaxCrashes == 1

Chars == {"a", "b"}

\* Python's None, passed where a str is expected (chunk_text(None)).
None == <<"<None>">>

Min(a, b) == IF a < b THEN a ELSE b
Max(a, b) == IF a > b THEN a ELSE b

Range(s) == {s[i] : i \in 1..Len(s)}

\* All character sequences of length 0..n.
RECURSIVE TextsUpTo(_)
TextsUpTo(n) ==
    IF n = 0 THEN {<<>>}
    ELSE LET shorter == TextsUpTo(n - 1)
         IN shorter \cup {Append(t, c) : t \in {u \in shorter : Len(u) = n - 1}, c \in Chars}

VARIABLES
    chunk_size,      \* config.chunk_size
    chunk_overlap,   \* config.chunk_overlap
    text,            \* argument of chunk_text
    start,           \* local of chunk_text
    chunks,          \* local of chunk_text, its return value
    starts,          \* history: the start offset of every chunk appended
    ck_pc            \* position in chunk_text: "call", "loop", "done"

chunkVars == <<chunk_size, chunk_overlap, text, start, chunks, starts, ck_pc>>

VARIABLES
    cache,           \* rows of the SQLite table "embeddings" (cache.db)
    model,           \* Embedder.model: NoModel until the first load
    call_log         \* history: one entry per get_embedding call

embedVars == <<cache, model, call_log>>

VARIABLES
    rank,                  \* the vector store: per query text, its records nearest first
    query,                 \* argument of search: a str or a list of str
    n_results,             \* argument of search
    queries,               \* local of search
    qi,                    \* position of the "for q in queries" loop
    all_results,           \* local of search
    sorted_results,        \* local of search
    deduplicated_results,  \* local of search
    results,               \* return value of search
    s_pc                   \* position in search: "idle", "loop", "done", "raised"

searchVars == <<rank, query, n_results, queries, qi, all_results,
                sorted_results, deduplicated_results, results, s_pc>>

VARIABLES
    h_op,            \* the helper of VectorSearch called last, "none" before
    h_arg,           \* the list passed to it, as it is after the call
    h_threshold,     \* the threshold passed to filter_results_by_threshold
    h_ret            \* the list it returned

helperVars == <<h_op, h_arg, h_threshold, h_ret>>

VARIABLES
    documents,       \* argument of add_documents
    doc_idx,         \* position of the "for doc_idx, doc" loop (1-based)
    buffer,          \* all_ids, all_embeddings, all_metadatas, all_documents,
                     \* kept as one list of records
    added,           \* history: the batches handed to collection.add, in order
    built,           \* history: every record appended to the buffer, in order
    a_pc             \* add_documents: "idle", "loop", "done", "raised", "hung"

addVars == <<documents, doc_idx, buffer, added, built, a_pc>>

VARIABLES
    store,           \* the records of the collection "code_documents"
    last_put         \* history: the last direct call of _cache_embedding

VARIABLES
    file_types,            \* argument of search_with_filters ("None" if not given)
    similarity_threshold,  \* argument of search_with_filters
    f_n,                   \* argument n_results of search_with_filters
    f_results,             \* return value of search_with_filters
    f_pc                   \* search_with_filters: "idle", "search", "done", "raised"

filterVars == <<file_types, similarity_threshold, f_n, f_results, f_pc>>

VARIABLES
    u_file_path,     \* argument file_path of update_document
    u_content,       \* argument content of update_document
    u_delete,        \* history: how the deletion step ended: "none", "ok", "failed"
    u_add_calls,     \* history: the calls of add_documents update_document made
    u_store0,        \* history: the collection when update_document was called
    u_pc             \* update_document: "idle", "delete", "insert", "add",
                     \* "done", "raised"

updateVars == <<u_file_path, u_content, u_delete, u_add_calls, u_store0, u_pc>>

VARIABLES
    found_files,     \* local of process_all_files: what scan_directory returned
    fs,              \* the file system: what reading each file does
    p_idx,           \* position of the "for file_path in found_files" loop
    processed_files, \* local of process_all_files, its return value
    p_pc             \* process_all_files: "idle", "loop", "done", "raised"

indexVars == <<found_files, fs, p_idx, processed_files, p_pc>>

VARIABLES
    target_parts,    \* config.target_directory, as the parts of its absolute path
    tree_files,      \* the files under the target directory, as relative parts
    walk_todo,       \* os.walk: the directories still to be visited
    walk_seen,       \* history: the directories os.walk has visited
    scan_found,      \* local found_files of scan_directory, its return value
    sc_pc            \* scan_directory: "idle", "walk", "done"

scanVars == <<target_parts, tree_files, walk_todo, walk_seen, scan_found, sc_pc>>

VARIABLES
    workers,         \* two processes inside get_embedding on one cache file
    add_encoded,     \* history: the texts model.encode returned a vector for
                     \* during add_documents and its re-runs
    crashes,         \* history: the cache and the store at each stop of the
                     \* indexing process
    model_name,      \* config.model_name of the running process
    cli              \* the search command of main.py

moreVars == <<scanVars, workers, add_encoded, crashes, model_name, cli>>

extVars == <<store, last_put, filterVars, updateVars, indexVars, moreVars>>

vars == <<chunkVars, embedVars, searchVars, helperVars, addVars, extVars>>

(***************************************************************************)
(* embedder.py : chunk_text                                                *)
(***************************************************************************)

\* Python's s[i:j] for a str s and integers i, j (negative indices count
\* from the end and are clipped at 0).
PySlice(s, i, j) ==
    LET n  == Len(s)
        lo == IF i < 0 THEN Max(i + n, 0) ELSE Min(i, n)
        hi == IF j < 0 THEN Max(j + n, 0) ELSE Min(j, n)
    IN  IF hi <= lo THEN <<>> ELSE SubSeq(s, lo + 1, hi)

\* "not text": None and the empty string are both falsy.
IsFalsyText(t) == t = None \/ Len(t) = 0

\* end = min(start + chunk_size, len(text))
ChunkEnd(t, s, cs) == Min(s + cs, Len(t))

\* start = end - chunk_overlap
NextStart(t, s, cs, ov) == ChunkEnd(t, s, cs) - ov

\* if not text: return []   ...   chunks = []; start = 0
ChunkTextCall ==
    /\ ck_pc = "call"
    /\ IF IsFalsyText(text)
       THEN /\ ck_pc' = "done"
            /\ UNCHANGED <<start, chunks, starts>>
       ELSE /\ start' = 0
            /\ chunks' = <<>>
            /\ starts' = <<>>
            /\ ck_pc' = IF 0 < Len(text) THEN "loop" ELSE "done"
    /\ UNCHANGED <<chunk_size, chunk_overlap, text>>
    /\ UNCHANGED <<embedVars, searchVars, helperVars, addVars, extVars>>

\* One iteration of "while start < len(text)": the body from the slice to
\* the break test, followed by the next evaluation of the loop condition.
ChunkTextLoop ==
    /\ ck_pc = "loop"
    /\ Len(chunks) < MaxChunks
    /\ LET end == ChunkEnd(text, start, chunk_size)
           nxt == NextStart(text, start, chunk_size, chunk_overlap)
       IN  /\ chunks' = Append(chunks, PySlice(text, start, end))
           /\ starts' = Append(starts, start)
           /\ start' = nxt
           \* "if start >= len(text): break", else back to the while test,
           \* which is then true
           /\ ck_pc' = IF nxt >= Len(text) THEN "done" ELSE "loop"
    /\ UNCHANGED <<chunk_size, chunk_overlap, text>>
    /\ UNCHANGED <<embedVars, searchVars, helperVars, addVars, extVars>>

(***************************************************************************)
(* embedder.py : fingerprint cache and get_embedding                       *)
(***************************************************************************)
ModelName == "intfloat/e5-small-v2"
NoModel == "None"
NoVector == [model |-> "None", of |-> <<>>]

\* The texts handed to get_embedding in SpecEmbed.
EmbedTexts == {<<"a">>, <<"b">>, <<"a", "b">>}

\* model.encode(text): the provider is an external deterministic function;
\* its vector is identified by the model that computed it and the text.
Encode(m, t) == [model |-> m, of |-> t]

\* hashlib.md5(content.encode('utf-8')).hexdigest(): a digest that is a
\* function of the text; MD5 collisions are not modelled.
get_content_hash(t) == <<"md5">> \o t

\* pickle.dumps / pickle.loads of the vector stored in the BLOB column.
PickleDumps(v) == <<"pickle", v>>
PickleLoads(b) == b[2]

CacheRows(c, h) == {r \in c : r.content_hash = h}

\* SELECT embedding ... WHERE content_hash = ?; fetchone(); None if no row.
get_cached_embedding(c, h) ==
    IF CacheRows(c, h) = {} THEN NoVector
    ELSE PickleLoads((CHOOSE r \in CacheRows(c, h) : TRUE).embedding)

\* Mutant: the INSERT is never committed.
cache_embedding_not_stored(c, h, v) == c

\* Mutant: a plain INSERT into a table without the primary key.
cache_embedding_appended(c, h, v) ==
    c \cup {[content_hash |-> h, embedding |-> PickleDumps(v)]}

\* Mutant: the table is emptied before the row is written.
cache_embedding_evicting(c, h, v) ==
    {[content_hash |-> h, embedding |-> PickleDumps(v)]}

\* INSERT OR REPLACE INTO embeddings ...: content_hash is the primary key,
\* so a row with the same key is replaced.
cache_embedding(c, h, v) ==
    (c \ CacheRows(c, h)) \cup {[content_hash |-> h, embedding |-> PickleDumps(v)]}

\* What the provider does during one handler: whether loading the model
\* succeeds and the text on which model.encode raises, if any (a handler
\* ends at the first raise).
ProviderEnvs(ts) == [load_ok : BOOLEAN, bad : {{}} \cup {{t} : t \in ts}]

\* _load_model: the model is constructed only while self.model is None,
\* SentenceTransformer(self.model_name).
load_model(m, env) == IF m = NoModel /\ env.load_ok THEN model_name ELSE m

\* Mutant: _load_model without "if self.model is None".
load_model_steps_eager(m) ==
    <<"torch.set_num_threads(1)", "SentenceTransformer(self.model_name)">>

\* The calls _load_model makes, in order: none once self.model is set.
load_model_steps(m) ==
    IF m = NoModel
    THEN <<"torch.set_num_threads(1)", "SentenceTransformer(self.model_name)">>
    ELSE <<>>

\* Mutant: an exception of the provider is swallowed and get_embedding
\* returns without a vector.
get_embedding_swallowed(c, m, t, env) ==
    LET h      == get_content_hash(t)
        cached == get_cached_embedding(c, h)
        m2     == load_model(m, env)
        v      == Encode(m2, t)
    IN  IF cached # NoVector
        THEN [raised |-> FALSE, ret |-> cached, cache |-> c, model |-> m,
              loaded |-> FALSE, encoded |-> FALSE, steps |-> <<>>]
        ELSE IF m2 = NoModel
        THEN [raised |-> FALSE, ret |-> NoVector, cache |-> c, model |-> m,
              loaded |-> FALSE, encoded |-> FALSE, steps |-> load_model_steps(m)]
        ELSE IF t \in env.bad
        THEN [raised |-> FALSE, ret |-> NoVector, cache |-> c, model |-> m2,
              loaded |-> (m = NoModel), encoded |-> TRUE,
              steps |-> load_model_steps(m)]
        ELSE [raised |-> FALSE, ret |-> v, cache |-> cache_embedding(c, h, v),
              model |-> m2, loaded |-> (m = NoModel), encoded |-> TRUE,
              steps |-> load_model_steps(m)]

\* get_embedding(text) from cache state c and model handle m.  The result
\* is the outcome (raised or returned vector), the cache and model handle
\* afterwards, whether the model was loaded and model.encode invoked, and
\* the calls _load_model made.
get_embedding(c, m, t, env) ==
    LET h      == get_content_hash(t)
        cached == get_cached_embedding(c, h)
        m2     == load_model(m, env)
        v      == Encode(m2, t)
    IN  IF cached # NoVector
        THEN [raised |-> FALSE, ret |-> cached, cache |-> c, model |-> m,
              loaded |-> FALSE, encoded |-> FALSE, steps |-> <<>>]
        ELSE IF m2 = NoModel
        THEN [raised |-> TRUE, ret |-> NoVector, cache |-> c, model |-> m,
              loaded |-> FALSE, encoded |-> FALSE, steps |-> load_model_steps(m)]
        ELSE IF t \in env.bad
        THEN [raised |-> TRUE, ret |-> NoVector, cache |-> c, model |-> m2,
              loaded |-> (m = NoModel), encoded |-> TRUE,
              steps |-> load_model_steps(m)]
        ELSE [raised |-> FALSE, ret |-> v, cache |-> cache_embedding(c, h, v),
              model |-> m2, loaded |-> (m = NoModel), encoded |-> TRUE,
              steps |-> load_model_steps(m)]

\* The vectors _cache_embedding is called with directly.
CacheVectors == {Encode(ModelName, t) : t \in EmbedTexts}

\* A caller invokes embedder._cache_embedding(content_hash, embedding).
CacheEmbeddingCall ==
    /\ \E t \in EmbedTexts, v \in CacheVectors :
         /\ cache' = cache_embedding(cache, get_content_hash(t), v)
         /\ last_put' = [content_hash |-> get_content_hash(t), embedding |-> v,
                         before |-> cache]
    /\ UNCHANGED <<model, call_log, chunkVars, searchVars, helperVars, addVars,
                   store, filterVars, updateVars, indexVars, moreVars>>

LogEntry(t, r) ==
    [text |-> t, raised |-> r.raised, ret |-> r.ret,
     loaded |-> r.loaded, encoded |-> r.encoded, steps |-> r.steps,
     configured |-> model_name]

\* A caller invokes embedder.get_embedding(t).
GetEmbedding ==
    /\ Len(call_log) < MaxCalls
    /\ \E t \in EmbedTexts, env \in ProviderEnvs(EmbedTexts) :
         LET r == get_embedding(cache, model, t, env)
         IN  /\ cache' = r.cache
             /\ model' = r.model
             /\ call_log' = Append(call_log, LogEntry(t, r))
    /\ UNCHANGED <<chunkVars, searchVars, helperVars, addVars, extVars>>

(***************************************************************************)
(* Two processes, each with its own Embedder (its own model handle) on the  *)
(* same cache file, inside get_embedding.  Each SQLite statement is one     *)
(* step: the SELECT of _get_cached_embedding, the provider call of          *)
(* generate_embedding, the committed INSERT OR REPLACE of _cache_embedding. *)
(***************************************************************************)
Processes == {1, 2}

Worker(t) ==
    [pc |-> "start", text |-> t, model |-> NoModel, embedding |-> NoVector,
     ret |-> NoVector, encoded |-> FALSE]

\* content_hash = ...; cached_embedding = self._get_cached_embedding(...);
\* a hit is returned at once.
WorkerLookup(p) ==
    /\ workers[p].pc = "start"
    /\ LET cached == get_cached_embedding(cache,
                                          get_content_hash(workers[p].text))
       IN  workers' = [workers EXCEPT ![p] =
                          IF cached # NoVector
                          THEN [@ EXCEPT !.pc = "done", !.ret = cached]
                          ELSE [@ EXCEPT !.pc = "miss"]]
    /\ UNCHANGED <<cache, model, call_log, chunkVars, searchVars, helperVars,
                   addVars, store, last_put, filterVars, updateVars, indexVars,
                   scanVars, add_encoded, crashes, model_name, cli>>

\* embedding = self.generate_embedding(text): the model is loaded and
\* model.encode is invoked; either may raise.
WorkerGenerate(p) ==
    /\ workers[p].pc = "miss"
    /\ \E env \in ProviderEnvs({workers[p].text}) :
         LET m2 == load_model(workers[p].model, env)
         IN  workers' = [workers EXCEPT ![p] =
                 IF m2 = NoModel
                 THEN [@ EXCEPT !.pc = "raised"]
                 ELSE IF workers[p].text \in env.bad
                 THEN [@ EXCEPT !.pc = "raised", !.model = m2,
                                !.encoded = TRUE]
                 ELSE [@ EXCEPT !.pc = "encoded", !.model = m2,
                                !.encoded = TRUE,
                                !.embedding = Encode(m2, workers[p].text)]]
    /\ UNCHANGED <<cache, model, call_log, chunkVars, searchVars, helperVars,
                   addVars, store, last_put, filterVars, updateVars, indexVars,
                   scanVars, add_encoded, crashes, model_name, cli>>

\* self._cache_embedding(content_hash, embedding); return embedding
WorkerCache(p) ==
    /\ workers[p].pc = "encoded"
    /\ cache' = cache_embedding(cache, get_content_hash(workers[p].text),
                                workers[p].embedding)
    /\ workers' = [workers EXCEPT ![p] =
                      [@ EXCEPT !.pc = "done", !.ret = workers[p].embedding]]
    /\ UNCHANGED <<model, call_log, chunkVars, searchVars, helperVars, addVars,
                   store, last_put, filterVars, updateVars, indexVars, scanVars,
                   add_encoded, crashes, model_name, cli>>

(***************************************************************************)
(* A later command on the same cache file: main builds a new Config, whose  *)
(* model_name is the default or the --model of the index command, and a new *)
(* Embedder with no model loaded.                                            *)
(***************************************************************************)
OtherModelName == "all-MiniLM-L6-v2"
ModelNames == {ModelName, OtherModelName}

NewEmbedder ==
    /\ \E name \in ModelNames : model_name' = name
    /\ model' = NoModel
    /\ UNCHANGED <<cache, call_log, chunkVars, searchVars, helperVars, addVars,
                   store, last_put, filterVars, updateVars, indexVars, scanVars,
                   workers, add_encoded, crashes, cli>>

(***************************************************************************)
(* search.py : the query engine                                            *)
(***************************************************************************)

\* 1.0 in tenths: 'similarity': 1.0 - results['distances'][0][i]
SimilarityOne == 10

QueryTexts == {<<"a">>, <<"b">>}

\* os.path.splitext(path)[1]: the file type kept in a record's metadata.
FileType(path) == IF path = "file1.cs" THEN ".cs" ELSE ".sql"

\* The records of the collection a query can match: id "<file_path>_<i>".
StoreRecords ==
    {[file_path |-> "file1.cs", chunk_index |-> 0, document |-> <<"a">>],
     [file_path |-> "file1.cs", chunk_index |-> 1, document |-> <<"b">>],
     [file_path |-> "file2.sql", chunk_index |-> 0, document |-> <<"a", "b">>]}

Hits == [rec : StoreRecords, distance : 1..MaxDist]

\* A nearest-neighbour ranking: distinct records, nearest first.
RECURSIVE RankingsOfLen(_)
RankingsOfLen(n) ==
    IF n = 0 THEN {<<>>}
    ELSE {Append(r, h) : r \in RankingsOfLen(n - 1), h \in Hits}

IsRanking(r) ==
    /\ \A i, j \in 1..Len(r) : i < j =>
           /\ r[i].rec # r[j].rec
           /\ r[i].distance <= r[j].distance

Rankings == UNION {{r \in RankingsOfLen(n) : IsRanking(r)} : n \in 0..MaxHits}

Take(s, n) == SubSeq(s, 1, Min(n, Len(s)))

\* collection.query(query_embeddings=[e], n_results=k): the k nearest
\* records of the ranking the store holds for the query.
collection_query(rk, q, k) == Take(rk[q], k)

\* The result dict search builds from the i-th match of a query.
MakeResult(h, q) ==
    [file_path   |-> h.rec.file_path,
     content     |-> h.rec.document,
     similarity  |-> SimilarityOne - h.distance,
     file_type   |-> FileType(h.rec.file_path),
     chunk_index |-> h.rec.chunk_index,
     query       |-> q]

ProcessResults(hits, q) == [i \in 1..Len(hits) |-> MakeResult(hits[i], q)]

\* Insert x into a list that is in non-increasing similarity order, after
\* every element whose similarity is at least x's.
RECURSIVE InsertBySimilarity(_, _)
InsertBySimilarity(x, s) ==
    IF s = <<>> THEN <<x>>
    ELSE IF s[1].similarity >= x.similarity
         THEN <<s[1]>> \o InsertBySimilarity(x, Tail(s))
         ELSE <<x>> \o s

\* Mutant: the list is returned in the order it came in.
sort_results_unsorted(rs) == rs

\* sorted(results, key=lambda x: x['similarity'], reverse=True): Python's
\* sort is stable, also with reverse=True.
RECURSIVE sort_results_by_similarity(_)
sort_results_by_similarity(rs) ==
    IF rs = <<>> THEN <<>>
    ELSE InsertBySimilarity(rs[Len(rs)],
                            sort_results_by_similarity(SubSeq(rs, 1, Len(rs) - 1)))

\* Mutant: ">=" for ">", the last of the entries tied for the best is kept.
DedupStep_keep_last(seen, r) ==
    LET idx == {i \in 1..Len(seen) : seen[i].file_path = r.file_path}
    IN  IF idx = {} THEN Append(seen, r)
        ELSE LET i == CHOOSE k \in idx : TRUE
             IN  IF r.similarity >= seen[i].similarity
                 THEN [seen EXCEPT ![i] = r]
                 ELSE seen

\* Mutant: every result is kept, whatever its path.
DedupStep_keep_all(seen, r) == Append(seen, r)

\* One iteration of the loop of deduplicate_results.  seen is the dict
\* seen_files as the list of its values in insertion order; replacing the
\* value of a key keeps the key's position.
DedupStep(seen, r) ==
    LET idx == {i \in 1..Len(seen) : seen[i].file_path = r.file_path}
    IN  IF idx = {} THEN Append(seen, r)
        ELSE LET i == CHOOSE k \in idx : TRUE
             IN  IF r.similarity > seen[i].similarity
                 THEN [seen EXCEPT ![i] = r]
                 ELSE seen

RECURSIVE DedupFrom(_, _)
DedupFrom(seen, rs) ==
    IF rs = <<>> THEN seen ELSE DedupFrom(DedupStep(seen, rs[1]), Tail(rs))

\* deduplicate_results: list(seen_files.values())
deduplicate_results(rs) == DedupFrom(<<>>, rs)

\* Mutant: ">" for ">=", a similarity equal to the threshold is dropped.
filter_results_by_threshold_strict(rs, t) ==
    SelectSeq(rs, LAMBDA r : r.similarity > t)

\* filter_results_by_threshold
filter_results_by_threshold(rs, t) ==
    SelectSeq(rs, LAMBDA r : r.similarity >= t)

\* Mutant: the slice is dropped.
Truncate_none(rs, n) == rs

\* deduplicated_results[:n_results]
Truncate(rs, n) == Take(rs, n)

SearchArgs ==
    [is_str : {TRUE}, value : QueryTexts]
    \cup [is_str : {FALSE},
          value : UNION {[1..n -> QueryTexts] : n \in 0..MaxQueries}]

\* search(query, n_results): "if isinstance(query, str): queries = [query]",
\* all_results = [].
SearchEnter(a, n) ==
    /\ query' = a
    /\ n_results' = n
    /\ queries' = IF a.is_str THEN <<a.value>> ELSE a.value
    /\ qi' = 1
    /\ all_results' = <<>>
    /\ sorted_results' = <<>>
    /\ deduplicated_results' = <<>>
    /\ results' = <<>>
    /\ s_pc' = "loop"

\* A caller invokes search(query, n_results).
SearchCall ==
    /\ s_pc \in {"idle", "done", "raised"}
    /\ \E a \in SearchArgs, n \in 1..MaxN : SearchEnter(a, n)
    /\ UNCHANGED <<rank, chunkVars, embedVars, helperVars, addVars, extVars>>

\* One iteration of "for q in queries": embed the query, query the
\* collection, append one result per match.  A provider failure leaves
\* search through the exception.
SearchQuery ==
    /\ s_pc = "loop"
    /\ qi <= Len(queries)
    /\ \E env \in ProviderEnvs(QueryTexts) :
         LET q == queries[qi]
             e == get_embedding(cache, model, q, env)
         IN  /\ cache' = e.cache
             /\ model' = e.model
             /\ IF e.raised
                THEN /\ s_pc' = "raised"
                     /\ UNCHANGED <<qi, all_results>>
                ELSE /\ all_results' = all_results \o
                            ProcessResults(collection_query(rank, q, n_results), q)
                     /\ qi' = qi + 1
                     /\ s_pc' = "loop"
    /\ UNCHANGED <<rank, query, n_results, queries, sorted_results,
                   deduplicated_results, results, call_log, chunkVars,
                   helperVars, addVars, extVars>>

\* After the loop: sort, deduplicate, return the first n_results.
SearchReturn ==
    /\ s_pc = "loop"
    /\ qi > Len(queries)
    /\ sorted_results' = sort_results_by_similarity(all_results)
    /\ deduplicated_results' = deduplicate_results(sorted_results')
    /\ results' = Truncate(deduplicated_results', n_results)
    /\ s_pc' = "done"
    /\ UNCHANGED <<rank, query, n_results, queries, qi, all_results,
                   chunkVars, embedVars, helperVars, addVars, extVars>>

(***************************************************************************)
(* main.py : the search command.  main parses the queries (nargs='+'),      *)
(* -n/--results and --threshold and calls                                    *)
(* search_documents(args.queries, config, args.results).                     *)
(***************************************************************************)
CliQueries == UNION {[1..n -> QueryTexts] : n \in 1..MaxQueries}
CliThresholds == {0, SimilarityOne - 1}

\* db_info['document_count'] == 0: an empty collection matches nothing.
CollectionIsEmpty == \A q \in QueryTexts : rank[q] = <<>>

\* search_documents up to "results = search.search(queries, n_results=...)";
\* on an empty collection it prints a message and returns.
SearchCommandCall ==
    /\ cli.pc = "idle"
    /\ s_pc = "idle"
    /\ \E qs \in CliQueries, n \in 1..MaxN, th \in CliThresholds :
         IF CollectionIsEmpty
         THEN /\ cli' = [pc |-> "done", threshold |-> th, presented |-> <<>>]
              /\ UNCHANGED searchVars
         ELSE /\ cli' = [pc |-> "search", threshold |-> th, presented |-> <<>>]
              /\ SearchEnter([is_str |-> FALSE, value |-> qs], n)
              /\ UNCHANGED rank
    /\ UNCHANGED <<chunkVars, embedVars, helperVars, addVars, store, last_put,
                   filterVars, updateVars, indexVars, scanVars, workers,
                   add_encoded, crashes, model_name>>

\* search returned: every result is printed.
SearchCommandReturn ==
    /\ cli.pc = "search"
    /\ s_pc = "done"
    /\ cli' = [cli EXCEPT !.pc = "done", !.presented = results]
    /\ UNCHANGED <<chunkVars, embedVars, searchVars, helperVars, addVars, store,
                   last_put, filterVars, updateVars, indexVars, scanVars,
                   workers, add_encoded, crashes, model_name>>

\* search raised: search_documents does not catch it.
SearchCommandRaise ==
    /\ cli.pc = "search"
    /\ s_pc = "raised"
    /\ cli' = [cli EXCEPT !.pc = "raised"]
    /\ UNCHANGED <<chunkVars, embedVars, searchVars, helperVars, addVars, store,
                   last_put, filterVars, updateVars, indexVars, scanVars,
                   workers, add_encoded, crashes, model_name>>

\* No search is in progress.
SearchIdle ==
    /\ query = [is_str |-> FALSE, value |-> <<>>]
    /\ n_results = 1
    /\ queries = <<>>
    /\ qi = 1
    /\ all_results = <<>>
    /\ sorted_results = <<>>
    /\ deduplicated_results = <<>>
    /\ results = <<>>
    /\ s_pc = "idle"

(***************************************************************************)
(* search.py : search_with_filters                                         *)
(***************************************************************************)

\* n_results*2
OversampleFactor == 2

\* Mutant: search_with_filters asks search for n_results only.
Oversampled_not(n) == n

\* n_results*2
Oversampled(n) == n * OversampleFactor

\* The file_types argument: not given, an empty list, one type.
FileTypeArgs == {None, <<>>, <<".cs">>}

\* The similarity_threshold argument: the default 0.0 and 0.9.
FilterThresholds == {0, SimilarityOne - 1}

\* Mutant: the type filter is skipped.
ApplyFileTypes_skipped(rs, ft) == rs

\* "if file_types: results = [r for r in results if r['file_type'] in
\* file_types]": None and the empty list are falsy.
ApplyFileTypes(rs, ft) ==
    IF ft = None \/ ft = <<>> THEN rs
    ELSE SelectSeq(rs, LAMBDA r : r.file_type \in Range(ft))

\* search_with_filters(query, file_types, similarity_threshold, n_results)
\* calls self.search(query, n_results=n_results*2).
SearchWithFiltersCall ==
    /\ f_pc = "idle"
    /\ s_pc = "idle"
    /\ \E a \in SearchArgs, n \in 1..MaxN, ft \in FileTypeArgs,
          t \in FilterThresholds :
         /\ file_types' = ft
         /\ similarity_threshold' = t
         /\ f_n' = n
         /\ SearchEnter(a, Oversampled(n))
    /\ f_results' = <<>>
    /\ f_pc' = "search"
    /\ UNCHANGED <<rank, chunkVars, embedVars, helperVars, addVars, store,
                   last_put, updateVars, indexVars, moreVars>>

\* search has returned: filter by type, filter by threshold, slice.
SearchWithFiltersReturn ==
    /\ f_pc = "search"
    /\ s_pc = "done"
    /\ f_results' = Take(filter_results_by_threshold(
                             ApplyFileTypes(results, file_types),
                             similarity_threshold), f_n)
    /\ f_pc' = "done"
    /\ UNCHANGED <<file_types, similarity_threshold, f_n, chunkVars, embedVars,
                   searchVars, helperVars, addVars, store, last_put, updateVars,
                   indexVars, moreVars>>

\* search has raised: the exception leaves search_with_filters.
SearchWithFiltersRaise ==
    /\ f_pc = "search"
    /\ s_pc = "raised"
    /\ f_pc' = "raised"
    /\ UNCHANGED <<file_types, similarity_threshold, f_n, f_results, chunkVars,
                   embedVars, searchVars, helperVars, addVars, store, last_put,
                   updateVars, indexVars, moreVars>>

(***************************************************************************)
(* search.py : the list helpers called on their own                        *)
(***************************************************************************)

\* The result dicts a pool can hold.
PoolResults == {MakeResult(h, q) : h \in Hits, q \in QueryTexts}

Pools == UNION {[1..n -> PoolResults] : n \in 0..MaxPool}

Thresholds == (SimilarityOne - MaxDist - 1)..SimilarityOne

\* search.deduplicate_results(pool)
CallDeduplicate ==
    /\ h_op = "none"
    /\ \E pool \in Pools :
         /\ h_arg' = pool
         /\ h_ret' = deduplicate_results(pool)
    /\ h_op' = "deduplicate"
    /\ UNCHANGED <<h_threshold, chunkVars, embedVars, searchVars, addVars, extVars>>

\* search.sort_results_by_similarity(pool): sorted() builds a new list.
CallSort ==
    /\ h_op = "none"
    /\ \E pool \in Pools :
         /\ h_arg' = pool
         /\ h_ret' = sort_results_by_similarity(pool)
    /\ h_op' = "sort"
    /\ UNCHANGED <<h_threshold, chunkVars, embedVars, searchVars, addVars, extVars>>

\* search.filter_results_by_threshold(pool, threshold=t)
CallFilter ==
    /\ h_op = "none"
    /\ \E pool \in Pools, t \in Thresholds :
         /\ h_arg' = pool
         /\ h_threshold' = t
         /\ h_ret' = filter_results_by_threshold(pool, t)
    /\ h_op' = "filter"
    /\ UNCHANGED <<chunkVars, embedVars, searchVars, addVars, extVars>>

\* No helper has been called.
HelperIdle ==
    /\ h_op = "none"
    /\ h_arg = <<>>
    /\ h_threshold = 0
    /\ h_ret = <<>>

(***************************************************************************)
(* embedder.py : chunk_text and get_embeddings_for_chunks as functions,    *)
(* search.py : add_documents                                               *)
(***************************************************************************)

\* "if len(all_ids) >= 100"
BatchThreshold == 100

\* One iteration of the while loop of chunk_text on the locals st.  The
\* next start is a non-decreasing function of the start, so once it fails
\* to advance while the loop goes on, the loop never ends: "diverges".
ChunkStep(st, t, cs, ov) ==
    LET nxt == NextStart(t, st.start, cs, ov)
    IN  [start  |-> nxt,
         chunks |-> Append(st.chunks, PySlice(t, st.start, ChunkEnd(t, st.start, cs))),
         status |-> IF nxt >= Len(t) THEN "done"
                    ELSE IF nxt <= st.start THEN "diverges"
                    ELSE "loop"]

\* Up to k iterations of the loop from st, in order (evaluated by halves).
RECURSIVE ChunkRun(_, _, _, _, _)
ChunkRun(st, k, t, cs, ov) ==
    IF st.status # "loop" \/ k = 0 THEN st
    ELSE IF k = 1 THEN ChunkStep(st, t, cs, ov)
    ELSE ChunkRun(ChunkRun(st, k \div 2, t, cs, ov), k - (k \div 2), t, cs, ov)

\* chunk_text(text): a loop whose starts advance ends within len(text)
\* iterations.
chunk_text(t, cs, ov) ==
    IF IsFalsyText(t) THEN [diverges |-> FALSE, chunks |-> <<>>]
    ELSE LET r == ChunkRun([start |-> 0, chunks |-> <<>>, status |-> "loop"],
                           Len(t), t, cs, ov)
         IN  [diverges |-> r.status # "done", chunks |-> r.chunks]

\* The loop of get_embeddings_for_chunks over cks[lo..hi], in order
\* (evaluated by halves): the embeddings appended, the cache and the model
\* handle afterwards, and the texts model.encode returned a vector for; it
\* stops at the first raise.
RECURSIVE EmbedChunks(_, _, _, _, _, _)
EmbedChunks(cks, lo, hi, c, m, env) ==
    IF lo > hi
    THEN [raised |-> FALSE, embeddings |-> <<>>, cache |-> c, model |-> m,
          encoded |-> <<>>]
    ELSE IF lo = hi
    THEN LET e == get_embedding(c, m, cks[lo], env)
         IN  [raised |-> e.raised,
              embeddings |-> IF e.raised THEN <<>> ELSE <<e.ret>>,
              cache |-> e.cache, model |-> e.model,
              encoded |-> IF e.encoded /\ ~e.raised THEN <<cks[lo]>> ELSE <<>>]
    ELSE LET mid   == (lo + hi) \div 2
             first == EmbedChunks(cks, lo, mid, c, m, env)
         IN  IF first.raised THEN first
             ELSE LET rest == EmbedChunks(cks, mid + 1, hi, first.cache,
                                          first.model, env)
                  IN  [raised |-> rest.raised,
                       embeddings |-> first.embeddings \o rest.embeddings,
                       cache |-> rest.cache, model |-> rest.model,
                       encoded |-> first.encoded \o rest.encoded]

\* Mutant: the cache rows written before a failure are rolled back.
get_embeddings_for_chunks_rolled_back(cks, c, m, env) ==
    LET e == EmbedChunks(cks, 1, Len(cks), c, m, env)
    IN  IF e.raised THEN [e EXCEPT !.cache = c] ELSE e

\* get_embeddings_for_chunks(text), given the chunks of the text
get_embeddings_for_chunks(cks, c, m, env) ==
    EmbedChunks(cks, 1, Len(cks), c, m, env)

\* The record appended for the i-th pair of zip(chunks, embeddings)
\* (enumerate counts from 0); the id is f"{file_path}_{i}".
MakeRecord(doc, i, chunk, embedding) ==
    [id        |-> <<doc.file_path, i>>,
     embedding |-> embedding,
     metadata  |-> [file_path |-> doc.file_path, file_type |-> doc.file_type,
                    chunk_index |-> i],
     document  |-> chunk]

\* Mutant: the k-th chunk is paired with the k-th vector from the end.
RecordsOf_misaligned(doc, cks, embs) ==
    [k \in 1..Min(Len(cks), Len(embs)) |->
        MakeRecord(doc, k - 1, cks[k], embs[Len(embs) + 1 - k])]

\* zip(chunks, embeddings) stops at the shorter list.
RecordsOf(doc, cks, embs) ==
    [k \in 1..Min(Len(cks), Len(embs)) |-> MakeRecord(doc, k - 1, cks[k], embs[k])]

\* Mutant: the lists are not reset after the flush.
AfterThresholdFlush_not_cleared(buf) == buf

\* all_ids = [] ... after the flush inside the loop
AfterThresholdFlush(buf) == <<>>

IdsOf(recs) == {recs[i].id : i \in 1..Len(recs)}

\* The ids of a batch are pairwise different.
UniqueIds(recs) == Cardinality(IdsOf(recs)) = Len(recs)

\* collection.add(ids=..., embeddings=..., metadatas=..., documents=...)
\* when it does not raise: the ids of the batch are pairwise different and
\* a record whose id the collection already holds is left as it is.
collection_add(st, recs) ==
    st \cup {recs[i] : i \in {k \in 1..Len(recs) : \A r \in st : r.id # recs[k].id}}

\* A text of n characters.
TextOfLen(n) == [i \in 1..n |-> IF i % 2 = 1 THEN "a" ELSE "b"]

Document(p, n) ==
    [file_path |-> p, content |-> TextOfLen(n), file_type |-> FileType(p)]

\* The documents add_documents is called with: 0, 1 and 3 characters, 99
\* and 101 characters around the batch threshold, and one whose chunks no
\* other document has.
Documents ==
    {Document("file1.cs", 3), Document("file2.sql", 1), Document("file2.sql", 0),
     Document("file2.sql", BatchThreshold - 1), Document("file1.cs", BatchThreshold + 1),
     [file_path |-> "file3.sql", content |-> <<"c", "d">>, file_type |-> ".sql"]}

\* add_documents(documents): the four lists start empty.
AddEnter(docs) ==
    /\ documents' = docs
    /\ doc_idx' = 1
    /\ buffer' = <<>>
    /\ added' = <<>>
    /\ built' = <<>>
    /\ a_pc' = "loop"

\* A caller invokes add_documents(documents).
AddDocumentsCall ==
    /\ a_pc = "idle"
    /\ \E n \in 0..MaxDocs : \E docs \in [1..n -> Documents] : AddEnter(docs)
    /\ UNCHANGED <<chunkVars, embedVars, searchVars, helperVars, extVars>>

\* One iteration of "for doc_idx, doc in enumerate(documents)": embed the
\* chunks, chunk again, append one record per pair, then flush if the
\* buffer holds at least BatchThreshold records.  chunk_text may never
\* return, the provider and collection.add may raise.
AddDocumentsLoop ==
    /\ a_pc = "loop"
    /\ doc_idx <= Len(documents)
    /\ LET doc == documents[doc_idx]
           ck  == chunk_text(doc.content, chunk_size, chunk_overlap)
       IN  IF ck.diverges
           THEN /\ a_pc' = "hung"
                /\ UNCHANGED <<doc_idx, buffer, added, built, cache, model, store,
                               add_encoded>>
           ELSE \E env \in ProviderEnvs(Range(ck.chunks)) :
                  LET e    == get_embeddings_for_chunks(ck.chunks, cache, model, env)
                      recs == RecordsOf(doc, ck.chunks, e.embeddings)
                      buf  == buffer \o recs
                  IN  /\ cache' = e.cache
                      /\ model' = e.model
                      /\ add_encoded' = add_encoded \o e.encoded
                      /\ IF e.raised
                         THEN /\ a_pc' = "raised"
                              /\ UNCHANGED <<doc_idx, buffer, added, built, store>>
                         ELSE /\ built' = built \o recs
                              /\ IF Len(buf) >= BatchThreshold
                                 THEN \/ /\ UniqueIds(buf)
                                         /\ added' = Append(added, buf)
                                         /\ store' = collection_add(store, buf)
                                         /\ buffer' = AfterThresholdFlush(buf)
                                         /\ doc_idx' = doc_idx + 1
                                         /\ a_pc' = "loop"
                                      \/ /\ buffer' = buf   \* collection.add raises
                                         /\ a_pc' = "raised"
                                         /\ UNCHANGED <<added, doc_idx, store>>
                                 ELSE /\ buffer' = buf
                                      /\ doc_idx' = doc_idx + 1
                                      /\ a_pc' = "loop"
                                      /\ UNCHANGED <<added, store>>
    /\ UNCHANGED <<documents, call_log, chunkVars, searchVars, helperVars,
                   last_put, filterVars, updateVars, indexVars, scanVars,
                   workers, crashes, model_name, cli>>

\* After the loop: "if all_ids:" hand the remaining records to the store.
AddDocumentsReturn ==
    /\ a_pc = "loop"
    /\ doc_idx > Len(documents)
    /\ IF buffer # <<>>
       THEN \/ /\ UniqueIds(buffer)
               /\ added' = Append(added, buffer)
               /\ store' = collection_add(store, buffer)
               /\ a_pc' = "done"
            \/ /\ a_pc' = "raised"   \* collection.add raises
               /\ UNCHANGED <<added, store>>
       ELSE /\ a_pc' = "done"
            /\ UNCHANGED <<added, store>>
    /\ UNCHANGED <<documents, doc_idx, buffer, built, chunkVars, embedVars,
                   searchVars, helperVars, last_put, filterVars, updateVars,
                   indexVars, moreVars>>

(***************************************************************************)
(* The process running add_documents stops (it is killed, or ends on the    *)
(* exception add_documents raised) and add_documents is run again on the    *)
(* same documents by a new process.  What is on disk, the cache file and    *)
(* the collection, survives; the model handle and the locals do not.        *)
(***************************************************************************)
ProcessStops ==
    /\ a_pc \in {"loop", "raised"}
    /\ Len(crashes) < MaxCrashes
    /\ crashes' = Append(crashes, [cache |-> cache, store |-> store])
    /\ model' = NoModel
    /\ doc_idx' = 1
    /\ buffer' = <<>>
    /\ added' = <<>>
    /\ built' = <<>>
    /\ a_pc' = "stopped"
    /\ UNCHANGED <<documents, cache, call_log, store, chunkVars, searchVars,
                   helperVars, last_put, filterVars, updateVars, indexVars,
                   scanVars, workers, add_encoded, model_name, cli>>

AddDocumentsRerun ==
    /\ a_pc = "stopped"
    /\ AddEnter(documents)
    /\ UNCHANGED <<chunkVars, embedVars, searchVars, helperVars, extVars>>

(***************************************************************************)
(* search.py : update_document                                             *)
(***************************************************************************)

UpdatePaths == {"file1.cs", "file2.sql"}

\* The new contents update_document is called with.
UpdateContents == {<<>>, <<"a">>, <<"b">>, <<"a", "b", "a">>}

\* collection.get(where={"file_path": file_path})['ids']
collection_get_ids(st, path) == {r.id : r \in {x \in st : x.metadata.file_path = path}}

\* Mutant: the delete removes nothing.
collection_delete_nothing(st, ids) == st

\* collection.delete(ids=ids)
collection_delete(st, ids) == {r \in st : r.id \notin ids}

\* Mutant: the exception of the deletion step leaves update_document.
AfterDeleteFailure_propagated == "raised"

\* "except Exception as e: print(...)": the exception is swallowed and
\* update_document goes on to build the document.
AfterDeleteFailure == "insert"

\* A caller invokes update_document(file_path, content).
UpdateDocumentCall ==
    /\ u_pc \in {"idle", "done", "raised"}
    /\ \E path \in UpdatePaths, c \in UpdateContents :
         /\ u_file_path' = path
         /\ u_content' = c
    /\ u_delete' = "none"
    /\ u_add_calls' = 0
    /\ u_store0' = store
    /\ u_pc' = "delete"
    /\ UNCHANGED <<chunkVars, embedVars, searchVars, helperVars, addVars, store,
                   last_put, filterVars, indexVars, moreVars>>

\* The try block: look the ids of the path up and delete them, or an
\* exception of collection.get or collection.delete is caught.
UpdateDelete ==
    /\ u_pc = "delete"
    /\ \/ /\ store' = IF collection_get_ids(store, u_file_path) # {}
                       THEN collection_delete(store,
                                collection_get_ids(store, u_file_path))
                       ELSE store
          /\ u_delete' = "ok"
          /\ u_pc' = "insert"
       \/ /\ store' = store
          /\ u_delete' = "failed"
          /\ u_pc' = AfterDeleteFailure
    /\ UNCHANGED <<u_file_path, u_content, u_add_calls, u_store0, chunkVars,
                   embedVars, searchVars, helperVars, addVars, last_put,
                   filterVars, indexVars, moreVars>>

\* doc = {...}; self.add_documents([doc], collection_name)
UpdateInsert ==
    /\ u_pc = "insert"
    /\ AddEnter(<<[file_path |-> u_file_path, content |-> u_content,
                   file_type |-> FileType(u_file_path)]>>)
    /\ u_add_calls' = u_add_calls + 1
    /\ u_pc' = "add"
    /\ UNCHANGED <<u_file_path, u_content, u_delete, u_store0, chunkVars,
                   embedVars, searchVars, helperVars, store, last_put,
                   filterVars, indexVars, moreVars>>

\* add_documents has returned, and update_document returns.
UpdateReturn ==
    /\ u_pc = "add"
    /\ a_pc = "done"
    /\ u_pc' = "done"
    /\ UNCHANGED <<u_file_path, u_content, u_delete, u_add_calls, u_store0,
                   chunkVars, embedVars, searchVars, helperVars, addVars, store,
                   last_put, filterVars, indexVars, moreVars>>

\* add_documents has raised: the exception leaves update_document.
UpdateRaise ==
    /\ u_pc = "add"
    /\ a_pc = "raised"
    /\ u_pc' = "raised"
    /\ UNCHANGED <<u_file_path, u_content, u_delete, u_add_calls, u_store0,
                   chunkVars, embedVars, searchVars, helperVars, addVars, store,
                   last_put, filterVars, indexVars, moreVars>>

(***************************************************************************)
(* indexer.py : read_file_content, process_file, process_all_files         *)
(***************************************************************************)

\* The files scan_directory can return.
IndexFileNames == {"file1.cs", "file2.sql", "file3.sql"}

\* What open(...).read() does with one encoding: it returns the decoded
\* content or raises.
ReadOk(c) == [kind |-> "ok", content |-> c]
ReadRaises(e) == [kind |-> e, content |-> <<>>]

\* What reading a file does: with encoding utf-8 and, should the code
\* come to it, with encoding latin-1 (which decodes every byte, so that
\* read raises only if the file cannot be opened or read).  In turn: a
\* file with text, one with only blanks, an empty one, one that is gone,
\* one without read permission, one that is not UTF-8, one that is not
\* UTF-8 and decodes to blanks, one that is not UTF-8 and cannot be read
\* the second time.
FileBehaviours ==
    {[utf8 |-> ReadOk(<<"a">>), latin1 |-> ReadOk(<<"a">>)],
     [utf8 |-> ReadOk(<<" ">>), latin1 |-> ReadOk(<<" ">>)],
     [utf8 |-> ReadOk(<<>>), latin1 |-> ReadOk(<<>>)],
     [utf8 |-> ReadRaises("FileNotFoundError"),
      latin1 |-> ReadRaises("FileNotFoundError")],
     [utf8 |-> ReadRaises("PermissionError"),
      latin1 |-> ReadRaises("PermissionError")],
     [utf8 |-> ReadRaises("UnicodeDecodeError"), latin1 |-> ReadOk(<<"e", "a">>)],
     [utf8 |-> ReadRaises("UnicodeDecodeError"), latin1 |-> ReadOk(<<" ">>)],
     [utf8 |-> ReadRaises("UnicodeDecodeError"),
      latin1 |-> ReadRaises("PermissionError")]}

Returned(c) == [raised |-> FALSE, content |-> c]
Raised == [raised |-> TRUE, content |-> <<>>]

\* Mutant: without the final "except Exception" clause.
read_file_content_uncaught(b) ==
    IF b.utf8.kind = "ok" THEN Returned(b.utf8.content)
    ELSE IF b.utf8.kind = "FileNotFoundError" THEN Returned(<<>>)
    ELSE IF b.utf8.kind = "UnicodeDecodeError"
         THEN IF b.latin1.kind = "ok" THEN Returned(b.latin1.content)
              ELSE Returned(<<>>)
    ELSE Raised

\* read_file_content(file_path) on a file that behaves as b.
read_file_content(b) ==
    IF b.utf8.kind = "ok" THEN Returned(b.utf8.content)
    ELSE IF b.utf8.kind = "FileNotFoundError" THEN Returned(<<>>)
    ELSE IF b.utf8.kind = "UnicodeDecodeError"
         THEN IF b.latin1.kind = "ok" THEN Returned(b.latin1.content)
              ELSE Returned(<<>>)
    ELSE Returned(<<>>)

\* content.strip(): what is left of a content of letters and blanks is
\* empty exactly if the content holds no letter.
StripIsEmpty(c) == \A i \in 1..Len(c) : c[i] = " "

NoDocument == [file_path |-> "", content |-> <<>>, file_type |-> ""]

\* process_file(file_path): None for blank content, else the document.
process_file(path, b) ==
    LET r == read_file_content(b)
    IN  IF r.raised THEN [raised |-> TRUE, result |-> NoDocument]
        ELSE IF StripIsEmpty(r.content)
        THEN [raised |-> FALSE, result |-> NoDocument]
        ELSE [raised |-> FALSE,
              result |-> [file_path |-> path, content |-> r.content,
                          file_type |-> FileType(path)]]

\* The lists scan_directory can return: each file once.
ScanResults ==
    UNION {{fl \in [1..n -> IndexFileNames] :
               \A i, j \in 1..n : fl[i] = fl[j] => i = j} : n \in 0..MaxFiles}

\* process_all_files(): found_files = self.scan_directory(),
\* processed_files = [].
ProcessAllFilesCall ==
    /\ p_pc = "idle"
    /\ found_files' \in ScanResults
    /\ p_idx' = 1
    /\ processed_files' = <<>>
    /\ p_pc' = "loop"
    /\ UNCHANGED <<fs, chunkVars, embedVars, searchVars, helperVars, addVars,
                   store, last_put, filterVars, updateVars, moreVars>>

\* One iteration of "for file_path in found_files".
ProcessFileStep ==
    /\ p_pc = "loop"
    /\ p_idx <= Len(found_files)
    /\ LET r == process_file(found_files[p_idx], fs[found_files[p_idx]])
       IN  IF r.raised
           THEN /\ p_pc' = "raised"
                /\ UNCHANGED <<p_idx, processed_files>>
           ELSE /\ processed_files' = IF r.result # NoDocument
                                      THEN Append(processed_files, r.result)
                                      ELSE processed_files
                /\ p_idx' = p_idx + 1
                /\ p_pc' = "loop"
    /\ UNCHANGED <<found_files, fs, chunkVars, embedVars, searchVars, helperVars,
                   addVars, store, last_put, filterVars, updateVars, moreVars>>

\* return processed_files
ProcessAllFilesReturn ==
    /\ p_pc = "loop"
    /\ p_idx > Len(found_files)
    /\ p_pc' = "done"
    /\ UNCHANGED <<found_files, fs, p_idx, processed_files, chunkVars, embedVars,
                   searchVars, helperVars, addVars, store, last_put, filterVars,
                   updateVars, moreVars>>

(***************************************************************************)
(* FileIndexer.scan_directory.  A path is the sequence of its parts, as     *)
(* pathlib.Path(...).parts gives them; the file system under the target     *)
(* directory is the set of its files, each a path relative to the target    *)
(* directory, and its directories are the proper prefixes of those paths.   *)
(***************************************************************************)
supported_extensions == {".cs", ".sql", ".vb", ".aspx"}
ignored_folders == {".git", "node_modules", "bin", "obj", ".vs"}

\* config.target_directory: unset, or the parts of an absolute path.
NoTarget == <<>>
TargetDirectories == {<<"/", "work", "proj">>, <<"/", "work", "bin", "proj">>}

\* The files that may exist under the target directory.
TreeCandidates ==
    { <<"a.cs">>, <<"b.txt">>, <<"src", "C.SQL">>, <<"bin", "d.cs">>,
      <<"src", "obj", "e.cs">>, <<"bin", "sub", "f.cs">> }

Last(path) == path[Len(path)]

\* os.path.splitext(name)[1] of the file names above.
splitext(name) ==
    CASE name = "a.cs" -> ".cs"
      [] name = "b.txt" -> ".txt"
      [] name = "C.SQL" -> ".SQL"
      [] name = "d.cs" -> ".cs"
      [] name = "e.cs" -> ".cs"
      [] name = "f.cs" -> ".cs"
      [] OTHER -> ""

\* str.lower() of the extensions above.
lower(ext) == IF ext = ".SQL" THEN ".sql" ELSE ext

\* Config.should_ignore_file: some ignored folder name is one of the parts.
should_ignore_file(file_path) ==
    \E ignored_folder \in ignored_folders : ignored_folder \in Range(file_path)

\* Config.is_supported_file.
is_supported_file(name) == lower(splitext(name)) \in supported_extensions

\* What os.walk sees of a directory: its subdirectories and its files.
DirsOf(tree) ==
    UNION {{SubSeq(f, 1, k) : k \in 0..(Len(f) - 1)} : f \in tree}
IsChildOf(x, d) == Len(x) = Len(d) + 1 /\ SubSeq(x, 1, Len(d)) = d
SubdirsOf(tree, d) == {x \in DirsOf(tree) : IsChildOf(x, d)}
FilesOf(tree, d) == {f \in tree : IsChildOf(f, d)}

\* The orders in which a directory listing may come.
Listings(S) == {l \in [1..Cardinality(S) -> S] : Range(l) = S}

\* The files of one directory appended to found_files (indexer.py:32-39).
FoundIn(root, files) ==
    LET Keep(f) == /\ is_supported_file(Last(f))
                   /\ ~should_ignore_file(target_parts \o f)
        kept == SelectSeq(files, Keep)
    IN  [i \in 1..Len(kept) |-> target_parts \o kept[i]]

\* scan_directory is called; without a target directory it returns [].
ScanDirectoryCall ==
    /\ sc_pc = "idle"
    /\ scan_found' = <<>>
    /\ walk_seen' = {}
    /\ IF target_parts = NoTarget
       THEN /\ sc_pc' = "done"
            /\ walk_todo' = <<>>
       ELSE /\ sc_pc' = "walk"
            /\ walk_todo' = << <<>> >>
    /\ UNCHANGED <<target_parts, tree_files, chunkVars, embedVars, searchVars,
                   helperVars, addVars, store, last_put, filterVars, updateVars,
                   indexVars, workers, add_encoded, crashes, model_name, cli>>

\* One iteration of the os.walk loop (top down): the ignored names are pruned
\* from dirs, a root with an ignored part is skipped, the supported files of
\* the root that should not be ignored are appended.
ScanWalkStep ==
    /\ sc_pc = "walk"
    /\ walk_todo # <<>>
    /\ LET root == Head(walk_todo)
           dirs == {d \in SubdirsOf(tree_files, root) :
                        Last(d) \notin ignored_folders}
       IN  \E ds \in Listings(dirs), files \in Listings(FilesOf(tree_files, root)) :
               /\ walk_todo' = ds \o Tail(walk_todo)
               /\ walk_seen' = walk_seen \cup {root}
               /\ scan_found' =
                      IF should_ignore_file(target_parts \o root)
                      THEN scan_found
                      ELSE scan_found \o FoundIn(root, files)
    /\ UNCHANGED <<target_parts, tree_files, sc_pc, chunkVars, embedVars,
                   searchVars, helperVars, addVars, store, last_put, filterVars,
                   updateVars, indexVars, workers, add_encoded, crashes,
                   model_name, cli>>

\* The walk is exhausted: return found_files.
ScanDirectoryReturn ==
    /\ sc_pc = "walk"
    /\ walk_todo = <<>>
    /\ sc_pc' = "done"
    /\ UNCHANGED <<target_parts, tree_files, walk_todo, walk_seen, scan_found,
                   chunkVars, embedVars, searchVars, helperVars, addVars, store,
                   last_put, filterVars, updateVars, indexVars, workers,
                   add_encoded, crashes, model_name, cli>>

\* No search_with_filters is in progress.
FilterIdle ==
    /\ file_types = None
    /\ similarity_threshold = 0
    /\ f_n = 1
    /\ f_results = <<>>
    /\ f_pc = "idle"

\* No update_document is in progress.
UpdateIdle ==
    /\ u_file_path = ""
    /\ u_content = <<>>
    /\ u_delete = "none"
    /\ u_add_calls = 0
    /\ u_store0 = {}
    /\ u_pc = "idle"

\* No process_all_files is in progress.
IndexIdle ==
    /\ found_files = <<>>
    /\ fs = <<>>
    /\ p_idx = 1
    /\ processed_files = <<>>
    /\ p_pc = "idle"

\* No add_documents is in progress.
AddIdle ==
    /\ documents = <<>>
    /\ doc_idx = 1
    /\ buffer = <<>>
    /\ added = <<>>
    /\ built = <<>>
    /\ a_pc = "idle"

\* No scan_directory is in progress.
ScanIdle ==
    /\ target_parts = <<>>
    /\ tree_files = {}
    /\ walk_todo = <<>>
    /\ walk_seen = {}
    /\ scan_found = <<>>
    /\ sc_pc = "idle"

CliIdle == [pc |-> "idle", threshold |-> 0, presented |-> <<>>]

\* One process with the default configuration, which has not stopped, and
\* nothing but the operations of the specification at hand in progress.
MoreIdle ==
    /\ ScanIdle
    /\ workers = <<>>
    /\ add_encoded = <<>>
    /\ crashes = <<>>
    /\ model_name = ModelName
    /\ cli = CliIdle

NoPut == [content_hash |-> <<>>, embedding |-> NoVector, before |-> {}]

\* The collection is empty and nothing but the operations of the
\* specification at hand is in progress.
ExtIdle ==
    /\ store = {}
    /\ last_put = NoPut
    /\ FilterIdle
    /\ UpdateIdle
    /\ IndexIdle
    /\ MoreIdle

\* The embedder is constructed and idle (used by the specifications that
\* do not exercise it).
EmbedIdle ==
    /\ cache = {}
    /\ model = NoModel
    /\ call_log = <<>>

InitChunk ==
    /\ EmbedIdle
    /\ SearchIdle
    /\ rank = [q \in QueryTexts |-> <<>>]
    /\ HelperIdle
    /\ AddIdle
    /\ ExtIdle
    /\ chunk_size \in 1..MaxChunkSize
    /\ chunk_overlap \in 0..MaxChunkSize
    /\ text \in TextsUpTo(MaxTextLen) \cup {None}
    /\ start = 0
    /\ chunks = <<>>
    /\ starts = <<>>
    /\ ck_pc = "call"

NextChunk == ChunkTextCall \/ ChunkTextLoop

SpecChunk == InitChunk /\ [][NextChunk]_vars

\* The chunker is idle (used by the specifications that do not exercise it).
ChunkIdle ==
    /\ chunk_size = 1
    /\ chunk_overlap = 0
    /\ text = <<>>
    /\ start = 0
    /\ chunks = <<>>
    /\ starts = <<>>
    /\ ck_pc = "idle"

InitEmbed ==
    /\ ChunkIdle
    /\ EmbedIdle
    /\ SearchIdle
    /\ rank = [q \in QueryTexts |-> <<>>]
    /\ HelperIdle
    /\ AddIdle
    /\ ExtIdle

NextEmbed == GetEmbedding

SpecEmbed == InitEmbed /\ [][NextEmbed]_vars

InitCache == InitEmbed

NextCache == CacheEmbeddingCall

SpecCache == InitCache /\ [][NextCache]_vars

InitSearch ==
    /\ ChunkIdle
    /\ EmbedIdle
    /\ SearchIdle
    /\ rank \in [QueryTexts -> Rankings]
    /\ HelperIdle
    /\ AddIdle
    /\ ExtIdle

NextSearch == SearchCall \/ SearchQuery \/ SearchReturn

SpecSearch == InitSearch /\ [][NextSearch]_vars

InitFilter == InitSearch

NextFilter ==
    \/ SearchWithFiltersCall
    \/ SearchQuery
    \/ SearchReturn
    \/ SearchWithFiltersReturn
    \/ SearchWithFiltersRaise

SpecFilter == InitFilter /\ [][NextFilter]_vars

InitHelpers == InitEmbed

NextHelpers == CallDeduplicate \/ CallSort \/ CallFilter

SpecHelpers == InitHelpers /\ [][NextHelpers]_vars

\* The configurations add_documents runs under: (chunk_size, chunk_overlap).
AddConfigs == {<<1, 0>>, <<2, 0>>, <<2, 1>>}

InitAdd ==
    /\ \E cfg \in AddConfigs : chunk_size = cfg[1] /\ chunk_overlap = cfg[2]
    /\ text = <<>>
    /\ start = 0
    /\ chunks = <<>>
    /\ starts = <<>>
    /\ ck_pc = "idle"
    /\ EmbedIdle
    /\ SearchIdle
    /\ rank = [q \in QueryTexts |-> <<>>]
    /\ HelperIdle
    /\ AddIdle
    /\ ExtIdle

NextAdd == AddDocumentsCall \/ AddDocumentsLoop \/ AddDocumentsReturn

SpecAdd == InitAdd /\ [][NextAdd]_vars

InitIndex ==
    /\ ChunkIdle
    /\ EmbedIdle
    /\ SearchIdle
    /\ rank = [q \in QueryTexts |-> <<>>]
    /\ HelperIdle
    /\ AddIdle
    /\ store = {}
    /\ last_put = NoPut
    /\ FilterIdle
    /\ UpdateIdle
    /\ found_files = <<>>
    /\ fs \in [IndexFileNames -> FileBehaviours]
    /\ p_idx = 1
    /\ processed_files = <<>>
    /\ p_pc = "idle"
    /\ MoreIdle

NextIndex == ProcessAllFilesCall \/ ProcessFileStep \/ ProcessAllFilesReturn

SpecIndex == InitIndex /\ [][NextIndex]_vars

(***************************************************************************)
(* get_embedding calls of a process that starts on a cache file earlier     *)
(* processes may have filled.                                                *)
(***************************************************************************)
EarlierCaches ==
    { {[content_hash |-> get_content_hash(t),
        embedding |-> PickleDumps(Encode(ModelName, t))] : t \in ts} :
      ts \in SUBSET EmbedTexts }

InitLoad ==
    /\ ChunkIdle
    /\ cache \in EarlierCaches
    /\ model = NoModel
    /\ call_log = <<>>
    /\ SearchIdle
    /\ rank = [q \in QueryTexts |-> <<>>]
    /\ HelperIdle
    /\ AddIdle
    /\ ExtIdle

NextLoad == GetEmbedding

SpecLoad == InitLoad /\ [][NextLoad]_vars

(***************************************************************************)
(* get_embedding calls of successive commands with their own model names    *)
(* on one cache file.                                                        *)
(***************************************************************************)
NextModels == GetEmbedding \/ NewEmbedder

SpecModels == InitEmbed /\ [][NextModels]_vars

(***************************************************************************)
(* One run of the search command against any rankings of the collection.    *)
(***************************************************************************)
NextCli ==
    \/ SearchCommandCall
    \/ SearchQuery
    \/ SearchReturn
    \/ SearchCommandReturn
    \/ SearchCommandRaise

SpecCli == InitSearch /\ [][NextCli]_vars

(***************************************************************************)
(* search_with_filters against a collection in which a query may match one  *)
(* record more than MaxHits.                                                 *)
(***************************************************************************)
DeepRankings == {r \in RankingsOfLen(MaxHits + 1) : IsRanking(r)}

InitDeep ==
    /\ ChunkIdle
    /\ EmbedIdle
    /\ SearchIdle
    /\ rank \in [QueryTexts -> Rankings \cup DeepRankings]
    /\ HelperIdle
    /\ AddIdle
    /\ ExtIdle

SpecDeep == InitDeep /\ [][NextFilter]_vars

(***************************************************************************)
(* add_documents with stops of the process and re-runs.                     *)
(***************************************************************************)
NextRecover ==
    \/ AddDocumentsCall
    \/ AddDocumentsLoop
    \/ AddDocumentsReturn
    \/ ProcessStops
    \/ AddDocumentsRerun

SpecRecover == InitAdd /\ [][NextRecover]_vars

(***************************************************************************)
(* Two processes race in get_embedding on one cache file, which is empty    *)
(* or holds the entry of a text neither asks for.                            *)
(***************************************************************************)
InitRace ==
    /\ ChunkIdle
    /\ SearchIdle
    /\ rank = [q \in QueryTexts |-> <<>>]
    /\ HelperIdle
    /\ AddIdle
    /\ store = {}
    /\ last_put = NoPut
    /\ FilterIdle
    /\ UpdateIdle
    /\ IndexIdle
    /\ ScanIdle
    /\ model = NoModel
    /\ call_log = <<>>
    /\ cache \in {{}, cache_embedding({}, get_content_hash(<<"a", "b">>),
                                      Encode(ModelName, <<"a", "b">>))}
    /\ workers \in [Processes -> {Worker(t) : t \in QueryTexts}]
    /\ add_encoded = <<>>
    /\ crashes = <<>>
    /\ model_name = ModelName
    /\ cli = CliIdle

NextRace ==
    \E p \in Processes :
        \/ WorkerLookup(p)
        \/ WorkerGenerate(p)
        \/ WorkerCache(p)

SpecRace == InitRace /\ [][NextRace]_vars

(***************************************************************************)
(* The scanner alone: any target directory, any set of files under it.      *)
(***************************************************************************)
InitScan ==
    /\ ChunkIdle
    /\ EmbedIdle
    /\ SearchIdle
    /\ rank = [q \in QueryTexts |-> <<>>]
    /\ HelperIdle
    /\ AddIdle
    /\ store = {}
    /\ last_put = NoPut
    /\ FilterIdle
    /\ UpdateIdle
    /\ IndexIdle
    /\ target_parts \in TargetDirectories \cup {NoTarget}
    /\ tree_files \in SUBSET TreeCandidates
    /\ walk_todo = <<>>
    /\ walk_seen = {}
    /\ scan_found = <<>>
    /\ sc_pc = "idle"
    /\ workers = <<>>
    /\ add_encoded = <<>>
    /\ crashes = <<>>
    /\ model_name = ModelName
    /\ cli = CliIdle

NextScan ==
    \/ ScanDirectoryCall
    \/ ScanWalkStep
    \/ ScanDirectoryReturn

SpecScan == InitScan /\ [][NextScan]_vars

InitUpdate == InitAdd

NextUpdate ==
    \/ UpdateDocumentCall
    \/ UpdateDelete
    \/ UpdateInsert
    \/ AddDocumentsLoop
    \/ AddDocumentsReturn
    \/ UpdateReturn
    \/ UpdateRaise

SpecUpdate == InitUpdate /\ [][NextUpdate]_vars

(***************************************************************************)
(* The operations of one process, one after the other, on the same cache,  *)
(* model handle and collection.  A call starts when no other call is in    *)
(* progress; what a call that has ended left in its locals is dropped      *)
(* before the next call.                                                   *)
(***************************************************************************)

\* No call is in progress and no ended call is left to drop.
Quiescent ==
    /\ s_pc = "idle"
    /\ f_pc = "idle"
    /\ a_pc = "idle"
    /\ u_pc = "idle"
    /\ call_log = <<>>

\* A call has returned or raised to the caller of the operation.
Ended ==
    \/ call_log # <<>>
    \/ f_pc = "idle" /\ s_pc \in {"done", "raised"}
    \/ f_pc \in {"done", "raised"}
    \/ u_pc = "idle" /\ a_pc \in {"done", "raised"}
    \/ u_pc \in {"done", "raised"}

\* The locals and the return value of the ended call go out of scope; the
\* cache, the model handle and the collection stay.
DropEnded ==
    /\ Ended
    /\ call_log' = <<>>
    /\ query' = [is_str |-> FALSE, value |-> <<>>]
    /\ n_results' = 1
    /\ queries' = <<>>
    /\ qi' = 1
    /\ all_results' = <<>>
    /\ sorted_results' = <<>>
    /\ deduplicated_results' = <<>>
    /\ results' = <<>>
    /\ s_pc' = "idle"
    /\ file_types' = None
    /\ similarity_threshold' = 0
    /\ f_n' = 1
    /\ f_results' = <<>>
    /\ f_pc' = "idle"
    /\ documents' = <<>>
    /\ doc_idx' = 1
    /\ buffer' = <<>>
    /\ added' = <<>>
    /\ built' = <<>>
    /\ a_pc' = "idle"
    /\ u_file_path' = ""
    /\ u_content' = <<>>
    /\ u_delete' = "none"
    /\ u_add_calls' = 0
    /\ u_store0' = {}
    /\ u_pc' = "idle"
    /\ add_encoded' = <<>>
    /\ UNCHANGED <<cache, model, store, rank, chunkVars, helperVars, last_put,
                   indexVars, scanVars, workers, crashes, model_name, cli>>

\* The rankings the collection answers the queries with.
SystemRankings ==
    {[q \in QueryTexts |-> <<>>],
     [q \in QueryTexts |->
        IF q = <<"a">>
        THEN <<[rec |-> [file_path |-> "file1.cs", chunk_index |-> 0,
                         document |-> <<"a">>], distance |-> 1],
               [rec |-> [file_path |-> "file2.sql", chunk_index |-> 0,
                         document |-> <<"a", "b">>], distance |-> MaxDist]>>
        ELSE <<[rec |-> [file_path |-> "file1.cs", chunk_index |-> 1,
                         document |-> <<"b">>], distance |-> 1]>>]}

InitSystem ==
    /\ \E cfg \in AddConfigs : chunk_size = cfg[1] /\ chunk_overlap = cfg[2]
    /\ text = <<>>
    /\ start = 0
    /\ chunks = <<>>
    /\ starts = <<>>
    /\ ck_pc = "idle"
    /\ EmbedIdle
    /\ SearchIdle
    /\ rank \in SystemRankings
    /\ HelperIdle
    /\ AddIdle
    /\ ExtIdle

NextSystem ==
    \/ Quiescent /\ GetEmbedding
    \/ Quiescent /\ SearchCall
    \/ SearchQuery
    \/ SearchReturn
    \/ Quiescent /\ SearchWithFiltersCall
    \/ SearchWithFiltersReturn
    \/ SearchWithFiltersRaise
    \/ /\ Quiescent
       /\ AddDocumentsCall
       /\ \A i \in 1..Len(documents') : Len(documents'[i].content) <= MaxTextLen
    \/ AddDocumentsLoop
    \/ AddDocumentsReturn
    \/ Quiescent /\ UpdateDocumentCall
    \/ UpdateDelete
    \/ UpdateInsert
    \/ UpdateReturn
    \/ UpdateRaise
    \/ DropEnded

SpecSystem == InitSystem /\ [][NextSystem]_vars

(***************************************************************************)
(* The reference window sequence of the chunker: the first window is       *)
(* [0, min(chunk_size, len)), each following window starts at the previous *)
(* end minus the overlap, and the last window is the first one whose end   *)
(* is len.  Defined for overlap < chunk_size.                              *)
(***************************************************************************)
RECURSIVE RefWindowsFrom(_, _, _, _)
RefWindowsFrom(n, s, cs, ov) ==
    LET e == Min(s + cs, n)
    IN  IF e >= n THEN << <<s, e>> >>
        ELSE << <<s, e>> >> \o RefWindowsFrom(n, e - ov, cs, ov)

RefChunks(t, cs, ov) ==
    IF IsFalsyText(t) THEN <<>>
    ELSE LET w == RefWindowsFrom(Len(t), 0, cs, ov)
         IN  [i \in 1..Len(w) |-> SubSeq(t, w[i][1] + 1, w[i][2])]

IsPrefix(s, t) == Len(s) <= Len(t) /\ \A i \in 1..Len(s) : s[i] = t[i]

ChunkPrecondition == 0 <= chunk_overlap /\ chunk_overlap < chunk_size

\* C1: for every non-empty text and 0 <= chunk_overlap < chunk_size, the
\* start offsets of the chunks chunk_text emits are strictly increasing
\* (so the loop ends once a window's end has reached the text length).
C1_StartsStrictlyIncreasing ==
    (ChunkPrecondition /\ ~IsFalsyText(text)) =>
        \A i \in 1..(Len(starts) - 1) : starts[i] < starts[i + 1]

\* C2: chunk_text(text) is the reference window sequence: what it has
\* emitted so far is always a prefix of the reference, and what it returns
\* is the whole reference (empty for empty or None text).
C2_ChunksEqualReference ==
    (ChunkPrecondition /\ ck_pc # "call") =>
        /\ IsPrefix(chunks, RefChunks(text, chunk_size, chunk_overlap))
        /\ ck_pc = "done" => chunks = RefChunks(text, chunk_size, chunk_overlap)

NoProviderFailure == \A i \in 1..Len(call_log) : ~call_log[i].raised

EarlierCalls(i) == {j \in 1..(i - 1) : call_log[j].text = call_log[i].text}

\* C3: in a sequence of get_embedding calls in which the provider does not
\* fail, model.encode is invoked exactly once per distinct text: the first
\* call for a text invokes it, every later call for the same text does not
\* and returns the vector the first call returned.
C3_OneProviderCallPerText ==
    NoProviderFailure =>
        \A i \in 1..Len(call_log) :
            /\ EarlierCalls(i) = {} => call_log[i].encoded
            /\ \A j \in EarlierCalls(i) :
                   /\ ~call_log[i].encoded
                   /\ call_log[i].ret = call_log[j].ret
                   /\ call_log[i].ret # NoVector

C3_Witness ==
    /\ NoProviderFailure
    /\ \E i \in 1..Len(call_log) :
           /\ EarlierCalls(i) # {}
           /\ ~call_log[i].encoded
           /\ call_log[i].ret = Encode(ModelName, call_log[i].text)

(***************************************************************************)
(* Reference definitions for the query engine, independent of the          *)
(* operators that model the code.                                          *)
(***************************************************************************)
PathsOf(rs) == {rs[i].file_path : i \in 1..Len(rs)}

IndexesOf(rs, p) == {i \in 1..Len(rs) : rs[i].file_path = p}

\* The first entry of path p in the pool that has p's maximum similarity.
FirstBest(rs, p) ==
    CHOOSE i \in IndexesOf(rs, p) :
        \A j \in IndexesOf(rs, p) :
            /\ rs[j].similarity <= rs[i].similarity
            /\ j < i => rs[j].similarity < rs[i].similarity

FirstOccurrence(rs, p) ==
    CHOOSE i \in IndexesOf(rs, p) : \A j \in IndexesOf(rs, p) : i <= j

\* Deduplicate by path: one entry per path, in the order in which the
\* paths first occur in the pool, each the first best entry of its path.
RefDeduplicate(rs) ==
    LET ps  == PathsOf(rs)
        pos(p) == Cardinality({r \in ps : FirstOccurrence(rs, r) <= FirstOccurrence(rs, p)})
    IN  [k \in 1..Cardinality(ps) |->
            LET p == CHOOSE r \in ps : pos(r) = k IN rs[FirstBest(rs, p)]]

\* Stable sort by similarity, descending: the place of entry i is after
\* every entry of higher similarity and every earlier entry of the same.
RefSortPosition(rs, i) ==
    Cardinality({j \in 1..Len(rs) :
        \/ rs[j].similarity > rs[i].similarity
        \/ rs[j].similarity = rs[i].similarity /\ j <= i})

RefSort(rs) ==
    [k \in 1..Len(rs) |-> rs[CHOOSE i \in 1..Len(rs) : RefSortPosition(rs, i) = k]]

RefSearch(pool, n) == SubSeq(RefSort(RefDeduplicate(pool)), 1,
                             Min(n, Cardinality(PathsOf(pool))))

NonIncreasing(rs) ==
    \A i \in 1..(Len(rs) - 1) : rs[i].similarity >= rs[i + 1].similarity

UniquePaths(rs) ==
    \A i, j \in 1..Len(rs) : rs[i].file_path = rs[j].file_path => i = j

Occurrences(rs, x) == Cardinality({i \in 1..Len(rs) : rs[i] = x})

IsPermutation(a, b) ==
    /\ Len(a) = Len(b)
    /\ \A x \in Range(a) \cup Range(b) : Occurrences(a, x) = Occurrences(b, x)

\* The pool search gathers: the per-query matches in query order.
RECURSIVE ExpectedPool(_, _, _)
ExpectedPool(qs, rk, n) ==
    IF qs = <<>> THEN <<>>
    ELSE [i \in 1..Min(n, Len(rk[qs[1]])) |-> MakeResult(rk[qs[1]][i], qs[1])]
         \o ExpectedPool(Tail(qs), rk, n)

MaxSimilarity(rs, p) == rs[FirstBest(rs, p)].similarity

\* No two different paths of the pool have the same best similarity.
NoTiedPaths(rs) ==
    \A p, r \in PathsOf(rs) : p # r => MaxSimilarity(rs, p) # MaxSimilarity(rs, r)

C5_LimitIsPerQuery ==
    (/\ s_pc = "done"
     /\ Len(queries) = 2
     /\ n_results = 1
     /\ \A i \in 1..2 : Len(rank[queries[i]]) >= 1
     /\ Len(all_results) = 2
     /\ all_results[1].file_path # all_results[2].file_path)
    => /\ Len(results) = 2
       /\ results[1].similarity >= results[2].similarity
       /\ IsPermutation(results, all_results)

\* C7 as stated: for every pool, search returns what deduplicating the
\* pool by path, then sorting by similarity descending, then truncating to
\* n_results returns.
C7_DedupThenSortThenTruncate ==
    s_pc = "done" => results = RefSearch(all_results, n_results)

\* C7 amended: the same, for every pool in which no two different paths
\* have the same best similarity.
C7_DedupThenSortUnlessTied ==
    (s_pc = "done" /\ NoTiedPaths(all_results))
        => results = RefSearch(all_results, n_results)

C7_Witness ==
    /\ s_pc = "done"
    /\ NoTiedPaths(all_results)
    /\ Cardinality(PathsOf(all_results)) = 2
    /\ Len(all_results) >= 3
    /\ ~NonIncreasing(all_results)
    /\ results = RefSearch(all_results, n_results)
    /\ Len(results) = 2

\* C8: the list search returns is non-increasing in similarity and holds
\* at most one result per path; sort_results_by_similarity returns a
\* permutation of its input in non-increasing similarity order and leaves
\* its input as it was.
C8_SortedAndUniquePaths ==
    s_pc = "done" =>
        /\ NonIncreasing(results)
        /\ UniquePaths(results)
        /\ IsPermutation(sorted_results, all_results)
        /\ NonIncreasing(sorted_results)
        /\ all_results = ExpectedPool(queries, rank, n_results)

C8_Witness ==
    /\ s_pc = "done"
    /\ ~NonIncreasing(all_results)
    /\ Len(all_results) > Len(results)
    /\ Len(results) >= 2
    /\ NonIncreasing(results)

\* C6: deduplicate_results of a pool in which M distinct paths occur
\* returns exactly M results, one per path, each the entry of its path
\* with the maximum similarity and, among entries tied for the maximum,
\* the one that comes first in the pool.
C6_DedupKeepsFirstBestPerPath ==
    h_op = "deduplicate" =>
        /\ Len(h_ret) = Cardinality(PathsOf(h_arg))
        /\ \A p \in PathsOf(h_arg) :
               /\ Cardinality(IndexesOf(h_ret, p)) = 1
               /\ \A i \in IndexesOf(h_ret, p) : h_ret[i] = h_arg[FirstBest(h_arg, p)]

C6_Witness ==
    /\ h_op = "deduplicate"
    /\ Cardinality(PathsOf(h_arg)) = 2
    /\ Len(h_arg) = 3
    /\ Len(h_ret) = 2
    /\ \E i, j \in 1..Len(h_arg) :
           /\ i < j
           /\ h_arg[i].file_path = h_arg[j].file_path
           /\ h_arg[i].similarity = h_arg[j].similarity
           /\ h_arg[i] # h_arg[j]
           /\ h_arg[i] \in Range(h_ret)
           /\ h_arg[j] \notin Range(h_ret)

RECURSIVE Concat(_)
Concat(ss) == IF ss = <<>> THEN <<>> ELSE ss[1] \o Concat(Tail(ss))

\* C9: no batch handed to the vector store holds more than 100 records.
C9_BatchAtMostThreshold ==
    \A i \in 1..Len(added) : Len(added[i]) <= BatchThreshold

RefWindowCount(n, cs, ov) ==
    CHOOSE k \in 1..Max(n, 1) :
        /\ (k - 1) * (cs - ov) + cs >= n
        /\ \A j \in 1..(k - 1) : (j - 1) * (cs - ov) + cs < n

RefChunkAt(t, k, cs, ov) ==
    SubSeq(t, (k - 1) * (cs - ov) + 1, Min((k - 1) * (cs - ov) + cs, Len(t)))

ExpectedRecords(doc, cs, ov) ==
    IF doc.content = <<>> THEN <<>>
    ELSE [k \in 1..RefWindowCount(Len(doc.content), cs, ov) |->
            [id        |-> <<doc.file_path, k - 1>>,
             embedding |-> Encode(ModelName, RefChunkAt(doc.content, k, cs, ov)),
             metadata  |-> [file_path |-> doc.file_path, file_type |-> doc.file_type,
                            chunk_index |-> k - 1],
             document  |-> RefChunkAt(doc.content, k, cs, ov)]]

ExpectedBuilt(docs, k, cs, ov) ==
    Concat([i \in 1..k |-> ExpectedRecords(docs[i], cs, ov)])

\* C11: for every document add_documents has processed, it has built
\* exactly one record per chunk of the document, in chunk order: the i-th
\* chunk (from 0) yields the record with id <file_path>_<i>, chunk_index
\* i, the chunk as its text and, as its vector, the vector get_embedding
\* yields for that chunk (the one cached under the chunk's fingerprint).
C11_OneRecordPerChunk ==
    (a_pc \in {"loop", "done"} /\ ChunkPrecondition) =>
        /\ built = ExpectedBuilt(documents, doc_idx - 1, chunk_size, chunk_overlap)
        /\ \A i \in 1..Len(built) :
               built[i].embedding =
                   get_cached_embedding(cache, get_content_hash(built[i].document))

C11_Witness ==
    /\ a_pc = "done"
    /\ ChunkPrecondition
    /\ \E i, j \in 1..Len(built) :
           /\ built[i].id[1] = built[j].id[1]
           /\ built[i].id[2] + 1 = built[j].id[2]
           /\ built[i].document # built[j].document
           /\ built[i].embedding # built[j].embedding
           /\ Len(built[i].document) > Len(built[j].document)
    /\ built = ExpectedBuilt(documents, Len(documents), chunk_size, chunk_overlap)

\* The fingerprints of the texts in use.
Fingerprints == {get_content_hash(t) : t \in EmbedTexts}

\* C12: after _cache_embedding(fp, v), looking fp up returns v, the cache
\* holds exactly one entry for fp (a second write of the same fingerprint
\* replaces the entry), and the entry of every other fingerprint is what
\* it was before the write.
C12_CacheWriteIsUpsert ==
    last_put # NoPut =>
        /\ get_cached_embedding(cache, last_put.content_hash) = last_put.embedding
        /\ Cardinality({r \in cache : r.content_hash = last_put.content_hash}) = 1
        /\ \A g \in Fingerprints \ {last_put.content_hash} :
               {r \in cache : r.content_hash = g}
                   = {r \in last_put.before : r.content_hash = g}

C12_Witness ==
    /\ last_put # NoPut
    /\ \E r \in last_put.before :
           /\ r.content_hash = last_put.content_hash
           /\ r.embedding # PickleDumps(last_put.embedding)
    /\ \E r \in last_put.before : r.content_hash # last_put.content_hash
    /\ get_cached_embedding(cache, last_put.content_hash) = last_put.embedding
    /\ Cardinality(cache) = 2

\* The subsequence of rs at the indexes in K, in the order of rs.
RefSubSeq(rs, K) ==
    [k \in 1..Cardinality(K) |->
        rs[CHOOSE i \in K : Cardinality({j \in K : j <= i}) = k]]

\* The candidates of search that pass the threshold and, if ft restricts
\* the types, the type filter.
RefPassing(rs, restricts, ft, t) ==
    {i \in 1..Len(rs) :
        /\ rs[i].similarity >= t
        /\ restricts => \E k \in 1..Len(ft) : rs[i].file_type = ft[k]}

RefFiltered(rs, restricts, ft, t, n) ==
    LET kept == RefSubSeq(rs, RefPassing(rs, restricts, ft, t))
    IN  SubSeq(kept, 1, Min(n, Len(kept)))

\* The candidates of search_with_filters come from one search with
\* 2 x topN: the pool holds what the queries of that one call retrieved.
SingleOversampledSearch ==
    /\ n_results = 2 * f_n
    /\ all_results = ExpectedPool(queries, rank, 2 * f_n)
    /\ results = Truncate(deduplicate_results(sort_results_by_similarity(all_results)),
                          2 * f_n)

\* C15 as stated: search_with_filters takes its candidates from a single
\* search with 2 x topN; whenever file_types is given, every result has
\* its file_type in file_types; every result has similarity >= the
\* threshold; the results are the first topN candidates passing both
\* filters, in search order.
C15_FiltersWheneverTypesGiven ==
    f_pc = "done" =>
        /\ SingleOversampledSearch
        /\ f_results = RefFiltered(results, file_types # None, file_types,
                                   similarity_threshold, f_n)

\* C15 amended: the same with the type filter applied only when
\* file_types is a non-empty list; None and the empty list both mean no
\* type filter.
C15_FiltersWhenTypesNonEmpty ==
    f_pc = "done" =>
        /\ SingleOversampledSearch
        /\ f_results = RefFiltered(results, file_types \notin {None, <<>>},
                                   file_types, similarity_threshold, f_n)
        /\ Len(f_results) <= f_n
        /\ \A i \in 1..Len(f_results) :
               /\ f_results[i].similarity >= similarity_threshold
               /\ file_types \notin {None, <<>>} =>
                      f_results[i].file_type \in Range(file_types)

C15_Witness ==
    /\ f_pc = "done"
    /\ file_types = <<".cs">>
    /\ similarity_threshold = SimilarityOne - 1
    /\ f_n = 1
    /\ Len(results) = 2
    /\ results[1].file_type = ".sql"
    /\ f_results = <<results[2]>>
    /\ f_results[1].similarity = similarity_threshold

\* C16: filter_results_by_threshold(results, t) returns exactly the
\* results whose similarity is >= t (one equal to t is kept), in their
\* original relative order, and filtering what it returned with the same
\* t again returns the same list.
C16_ThresholdFilterExactAndIdempotent ==
    h_op = "filter" =>
        /\ h_ret = RefSubSeq(h_arg, {i \in 1..Len(h_arg) :
                                        h_arg[i].similarity >= h_threshold})
        /\ filter_results_by_threshold(h_ret, h_threshold) = h_ret

C16_Witness ==
    /\ h_op = "filter"
    /\ Len(h_arg) = 3
    /\ Len(h_ret) = 2
    /\ h_arg[2].similarity < h_threshold
    /\ h_arg[1].similarity = h_threshold
    /\ h_arg[3].similarity >= h_threshold
    /\ h_arg[3] # h_arg[1]
    /\ h_ret = <<h_arg[1], h_arg[3]>>

\* The query lists that hold the queries of qs in another order.
QueryOrders(qs) ==
    {[i \in 1..Len(qs) |-> qs[f[i]]] :
        f \in {g \in [1..Len(qs) -> 1..Len(qs)] :
                  \A i, j \in 1..Len(qs) : g[i] = g[j] => i = j}}

\* What search returns for the query list qs.
SearchOutcome(qs, rk, n) ==
    Truncate(deduplicate_results(sort_results_by_similarity(ExpectedPool(qs, rk, n))), n)

\* A result list without the originating-query tags.
Untagged(rs) ==
    [i \in 1..Len(rs) |-> <<rs[i].file_path, rs[i].similarity, rs[i].chunk_index>>]

\* No two pooled results of different records have the same similarity.
NoTiedRecords(rs) ==
    \A i, j \in 1..Len(rs) :
        rs[i].similarity = rs[j].similarity =>
            /\ rs[i].file_path = rs[j].file_path
            /\ rs[i].chunk_index = rs[j].chunk_index

\* C17 as stated: for every permutation of the query list, search with
\* the same n_results against the same store returns the same sequence of
\* (path, similarity, chunk index).
C17_QueryOrderIrrelevant ==
    s_pc = "done" =>
        \A p \in QueryOrders(queries) :
            Untagged(SearchOutcome(p, rank, n_results)) = Untagged(results)

\* C17 amended: the same, provided no two pooled results of different
\* records have the same similarity.
C17_QueryOrderIrrelevantUnlessTied ==
    (s_pc = "done" /\ NoTiedRecords(all_results)) =>
        \A p \in QueryOrders(queries) :
            Untagged(SearchOutcome(p, rank, n_results)) = Untagged(results)

C17_Witness ==
    /\ s_pc = "done"
    /\ NoTiedRecords(all_results)
    /\ Len(queries) = 2
    /\ queries[1] # queries[2]
    /\ Len(results) = 2
    /\ results[1].query = queries[2]
    /\ results[2].query = queries[1]
    /\ Untagged(SearchOutcome(<<queries[2], queries[1]>>, rank, n_results))
           = Untagged(results)

RecordsOfPath(st, path) == {r \in st : r.metadata.file_path = path}

\* The document update_document re-inserts.
UpdatedDocument ==
    [file_path |-> u_file_path, content |-> u_content,
     file_type |-> IF u_file_path = "file1.cs" THEN ".cs" ELSE ".sql"]

\* C18: after update_document(path, newContent) has returned with its
\* deletion step succeeded, the records of the collection whose file_path
\* is path are exactly the records of newContent's chunks (ids path_0 ..
\* path_{n-1}), none of the previous version remains, and the records of
\* every other path are what they were when update_document was called.
C18_UpdateReplacesRecordsOfPath ==
    (u_pc = "done" /\ u_delete = "ok" /\ ChunkPrecondition) =>
        /\ RecordsOfPath(store, u_file_path)
               = Range(ExpectedRecords(UpdatedDocument, chunk_size, chunk_overlap))
        /\ \A p \in UpdatePaths \ {u_file_path} :
               RecordsOfPath(store, p) = RecordsOfPath(u_store0, p)

C18_Witness ==
    /\ u_pc = "done"
    /\ u_delete = "ok"
    /\ ChunkPrecondition
    /\ Cardinality(RecordsOfPath(u_store0, u_file_path)) = 3
    /\ Cardinality(RecordsOfPath(store, u_file_path)) = 1
    /\ RecordsOfPath(store, u_file_path) \cap u_store0 = {}
    /\ store \ RecordsOfPath(store, u_file_path) # {}

\* C19: if the deletion step of update_document fails, the failure does
\* not leave update_document (update_document raises only if
\* add_documents does), and update_document goes on to call add_documents
\* exactly once.
C19_DeleteFailureIsSwallowed ==
    u_delete = "failed" =>
        /\ u_pc \in {"insert", "add", "done", "raised"}
        /\ u_pc = "insert" => u_add_calls = 0
        /\ u_pc \in {"add", "done", "raised"} => u_add_calls = 1
        /\ u_pc = "raised" => a_pc = "raised"
        /\ u_pc = "done" => a_pc = "done"

C19_Witness ==
    /\ u_delete = "failed"
    /\ u_pc = "done"
    /\ u_add_calls = 1
    /\ RecordsOfPath(u_store0, u_file_path) # {}
    /\ added # <<>>
    /\ documents = <<UpdatedDocument>>

CachedFingerprints(c) == {r.content_hash : r \in c}

\* C13: across any sequence of get_embedding, add_documents, search,
\* search_with_filters and update_document operations no cache entry is
\* removed: every step keeps the entries the cache holds, so the set of
\* fingerprints in the cache only grows.
C13_CacheOnlyGrows ==
    [][/\ CachedFingerprints(cache) \subseteq CachedFingerprints(cache')
       /\ cache \subseteq cache']_vars

C13_Witness ==
    /\ f_pc = "done"
    /\ store # {}
    /\ Len(queries) >= 1
    /\ get_content_hash(<<"a", "b">>) \in CachedFingerprints(cache)
    /\ \A i \in 1..Len(queries) :
           get_content_hash(queries[i]) \in CachedFingerprints(cache)
    /\ \E q \in QueryTexts : get_content_hash(q) \notin CachedFingerprints(cache)

Cached(t) == get_content_hash(t) \in CachedFingerprints(cache)

\* The chunks of the document add_documents is at, by the closed form.
CurrentChunks ==
    IF doc_idx > Len(documents) \/ documents[doc_idx].content = <<>> THEN {}
    ELSE {RefChunkAt(documents[doc_idx].content, k, chunk_size, chunk_overlap) :
            k \in 1..RefWindowCount(Len(documents[doc_idx].content),
                                    chunk_size, chunk_overlap)}

\* add_documents was left by an exception of the provider: a chunk of the
\* document it was at has not been embedded.
ProviderFailedInAdd ==
    /\ a_pc = "raised"
    /\ ChunkPrecondition
    /\ \E c \in CurrentChunks : ~Cached(c)

\* C14: a failure of the provider inside get_embedding leaves
\* get_embedding, get_embeddings_for_chunks, add_documents and search (and
\* search_with_filters and update_document through them) as an exception:
\* an operation returns only if every text it had to embed was embedded
\* and is cached; an operation left by the exception returns nothing, has
\* built no record of the failing document, and the failing text has no
\* cache entry afterwards (it was not embedded by a retry).
C14_ProviderFailurePropagates ==
    /\ \A i \in 1..Len(call_log) :
           /\ call_log[i].raised =>
                  call_log[i].ret = NoVector /\ ~Cached(call_log[i].text)
           /\ ~call_log[i].raised =>
                  call_log[i].ret # NoVector /\ Cached(call_log[i].text)
    /\ s_pc = "raised" =>
           /\ ~Cached(queries[qi])
           /\ results = <<>>
           /\ f_results = <<>>
           /\ f_pc \in {"idle", "search", "raised"}
    /\ s_pc = "done" =>
           /\ \A i \in 1..Len(queries) : Cached(queries[i])
           /\ all_results = ExpectedPool(queries, rank, n_results)
    /\ f_pc = "done" => s_pc = "done"
    /\ (a_pc = "done" /\ ChunkPrecondition) =>
           /\ built = ExpectedBuilt(documents, Len(documents), chunk_size,
                                    chunk_overlap)
           /\ \A i \in 1..Len(built) : Cached(built[i].document)
    /\ ProviderFailedInAdd =>
           /\ built = ExpectedBuilt(documents, doc_idx - 1, chunk_size,
                                    chunk_overlap)
           /\ \A i \in 1..Len(buffer) : buffer[i] \in Range(built)
           /\ u_pc \in {"idle", "add", "raised"}
    /\ u_pc = "done" => a_pc = "done"

C14_Witness ==
    /\ ProviderFailedInAdd
    /\ u_pc = "raised"
    /\ u_delete = "ok"
    /\ \E c \in CurrentChunks : Cached(c)
    /\ built = <<>>
    /\ RecordsOfPath(u_store0, u_file_path) # {}
    /\ RecordsOfPath(store, u_file_path) = {}

\* The file can be read: as UTF-8, or as latin-1 after UTF-8 decoding
\* failed.
Readable(b) ==
    \/ b.utf8.kind = "ok"
    \/ b.utf8.kind = "UnicodeDecodeError" /\ b.latin1.kind = "ok"

RefContent(b) == IF b.utf8.kind = "ok" THEN b.utf8.content ELSE b.latin1.content

HasLetter(c) == \E i \in 1..Len(c) : c[i] # " "

\* The scanned files that are expected in the result.
RefProduced(fl, behaviour) ==
    {i \in 1..Len(fl) :
        Readable(behaviour[fl[i]]) /\ HasLetter(RefContent(behaviour[fl[i]]))}

\* C20: a file that cannot be read (not found, no permission, not
\* decodable and unreadable on the second attempt) never aborts
\* process_all_files: read_file_content yields empty content for it, it
\* is left out of the documents produced, and every other scanned file
\* with non-blank content is produced, in scan order.
C20_UnreadableFilesAreSkipped ==
    /\ p_pc # "raised"
    /\ \A i \in 1..Len(found_files) :
           ~Readable(fs[found_files[i]]) =>
               read_file_content(fs[found_files[i]])
                   = [raised |-> FALSE, content |-> <<>>]
    /\ p_pc = "done" =>
           /\ Len(processed_files) = Cardinality(RefProduced(found_files, fs))
           /\ [k \in 1..Len(processed_files) |->
                  <<processed_files[k].file_path, processed_files[k].content>>]
              = RefSubSeq([i \in 1..Len(found_files) |->
                              <<found_files[i], RefContent(fs[found_files[i]])>>],
                          RefProduced(found_files, fs))

C20_Witness ==
    /\ p_pc = "done"
    /\ Len(found_files) = 2
    /\ fs[found_files[1]].utf8.kind = "PermissionError"
    /\ fs[found_files[2]].utf8.kind = "UnicodeDecodeError"
    /\ Len(processed_files) = 1
    /\ processed_files[1].file_path = found_files[2]
    /\ processed_files[1].content = <<"e", "a">>

(***************************************************************************)
(* C21.  scan_directory returns exactly the files under the target          *)
(* directory whose extension is supported and that do not lie inside an     *)
(* ignored folder within the target tree, wherever the target directory     *)
(* itself is located; no file under an ignored folder is returned and no    *)
(* ignored folder is traversed.                                              *)
(***************************************************************************)
RefExtension ==
    [n \in {"a.cs", "d.cs", "e.cs", "f.cs"} |-> ".cs"] @@
    ("b.txt" :> ".txt") @@ ("C.SQL" :> ".sql")

\* The folders of the target tree a relative path lies in.
RefFolders(f) == {f[i] : i \in 1..(Len(f) - 1)}

RefWanted ==
    {f \in tree_files :
        /\ RefExtension[f[Len(f)]] \in {".cs", ".sql", ".vb", ".aspx"}
        /\ RefFolders(f) \cap {".git", "node_modules", "bin", "obj", ".vs"} = {}}

C21_ScanReturnsExactlyWantedFiles ==
    (sc_pc = "done" /\ target_parts # <<>>) =>
        /\ {scan_found[i] : i \in 1..Len(scan_found)} =
               {target_parts \o f : f \in RefWanted}
        /\ \A d \in walk_seen :
               {d[i] : i \in 1..Len(d)} \cap
                   {".git", "node_modules", "bin", "obj", ".vs"} = {}

(***************************************************************************)
(* C22.  When two processes call get_embedding on the same text             *)
(* concurrently and the cache has no entry for it at first, then in every   *)
(* interleaving of their lookups, provider calls and cache writes a caller  *)
(* that has returned returned the provider's vector for the text, and from  *)
(* then on the cache holds exactly one entry for the fingerprint, with that *)
(* vector; the entries of other fingerprints stay.                          *)
(***************************************************************************)
RefVector(t) == [model |-> "intfloat/e5-small-v2", of |-> t]
RefEntry(t) == [content_hash |-> <<"md5">> \o t,
                embedding |-> <<"pickle", RefVector(t)>>]

C22_RacingWritersLeaveOneEntry ==
    \A p \in {1, 2} :
        (workers # <<>> /\ workers[1].text = workers[2].text
                        /\ workers[p].pc = "done") =>
            /\ workers[p].ret = RefVector(workers[p].text)
            /\ {r \in cache : r.content_hash = <<"md5">> \o workers[p].text}
                   = {RefEntry(workers[p].text)}
            /\ \A r \in cache :
                   r.content_hash \in {<<"md5">> \o workers[p].text,
                                       <<"md5", "a", "b">>}
            /\ Cardinality(cache) <= 2

\* Both processes missed, both invoked the provider, both wrote and returned.
C22_Witness ==
    /\ workers # <<>>
    /\ workers[1].text = workers[2].text
    /\ \A p \in {1, 2} : workers[p].pc = "done" /\ workers[p].encoded
    /\ Cardinality(cache) = 2

(***************************************************************************)
(* C23.  When the process stopped during add_documents (in particular       *)
(* after a chunk's vector was written to the cache and before its record    *)
(* reached the store) and add_documents, run again on the same documents,   *)
(* completes, then no text was handed to the provider twice over all the    *)
(* runs, so every chunk cached before the stop was served from the cache,   *)
(* and the cache and the store hold what a run that was never interrupted   *)
(* leaves: one entry per chunk text and, per record id, the first record    *)
(* built for it.                                                             *)
(***************************************************************************)
RefAllBuilt ==
    ExpectedBuilt(documents, Len(documents), chunk_size, chunk_overlap)

RefFirstPerId(b) ==
    {b[k] : k \in {i \in 1..Len(b) : \A j \in 1..(i - 1) : b[j].id # b[i].id}}

RefEntriesOf(b) ==
    {[content_hash |-> <<"md5">> \o b[k].document,
      embedding |-> <<"pickle", b[k].embedding>>] : k \in 1..Len(b)}

C23_RerunAfterStopEndsLikeUninterrupted ==
    (a_pc = "done" /\ crashes # <<>> /\ ChunkPrecondition) =>
        LET b == RefAllBuilt
        IN  /\ store = RefFirstPerId(b)
            /\ cache = RefEntriesOf(b)
            /\ Cardinality({add_encoded[i] : i \in 1..Len(add_encoded)})
                   = Len(add_encoded)

\* The process stopped with a vector in the cache whose record was not in
\* the store, and the re-run completed and filled the store.
C23_Witness ==
    /\ a_pc = "done"
    /\ crashes # <<>>
    /\ ChunkPrecondition
    /\ \E row \in crashes[1].cache :
           \A r \in crashes[1].store :
               <<"md5">> \o r.document # row.content_hash
    /\ store # {}
    /\ Len(add_encoded) >= 2

(***************************************************************************)
(* C24.  The embedding model is constructed at most once per process, on    *)
(* a cache miss and not before: no provider call precedes the construction, *)
(* every provider call is at or after it, torch.set_num_threads(1) is       *)
(* called before SentenceTransformer(...), calls after the construction     *)
(* make no _load_model call and use the same handle, and while every        *)
(* requested text was a cache hit no model is loaded.  (A construction      *)
(* that raises leaves no model; the next miss tries again.)                 *)
(***************************************************************************)
IsHit(i) == ~call_log[i].raised /\ ~call_log[i].encoded

PositionsOf(x, sq) == {k \in 1..Len(sq) : sq[k] = x}

\* The calls in which the model was constructed without raising.
Constructions ==
    {i \in 1..Len(call_log) :
        /\ PositionsOf("SentenceTransformer(self.model_name)",
                       call_log[i].steps) # {}
        /\ call_log[i].encoded}

C24_ModelLoadedOnceLazily ==
    /\ Cardinality(Constructions) <= 1
    /\ \A i \in 1..Len(call_log) :
           /\ IsHit(i) => call_log[i].steps = <<>>
           /\ call_log[i].encoded =>
                  \E c \in Constructions :
                      /\ c <= i
                      /\ \A j \in 1..(c - 1) : ~call_log[j].encoded
           /\ call_log[i].steps # <<>> =>
                  /\ ~IsHit(i)
                  /\ \A j \in 1..(i - 1) : j \notin Constructions
                  /\ \A k \in PositionsOf("SentenceTransformer(self.model_name)",
                                          call_log[i].steps) :
                         \E l \in PositionsOf("torch.set_num_threads(1)",
                                              call_log[i].steps) : l < k
           /\ (call_log[i].encoded /\ ~call_log[i].raised) =>
                  call_log[i].ret.model = "intfloat/e5-small-v2"
    /\ (model = "None") <=> (Constructions = {})
    /\ (\A i \in 1..Len(call_log) : IsHit(i)) => model = "None"

\* A hit with no model loaded, then the miss that constructs the model,
\* then a miss that reuses it.
C24_Witness ==
    /\ Len(call_log) >= 3
    /\ IsHit(1)
    /\ 2 \in Constructions
    /\ call_log[3].encoded
    /\ ~call_log[3].raised
    /\ call_log[3].steps = <<>>

(***************************************************************************)
(* C25.  get_embedding never returns a vector computed by a model other     *)
(* than the currently configured one, and the cache never holds vectors of  *)
(* two models: a command configured with a model other than the one that    *)
(* produced the cached vectors is rejected.                                  *)
(***************************************************************************)
C25_NoVectorOfAnotherModel ==
    /\ \A i \in 1..Len(call_log) :
           ~call_log[i].raised =>
               call_log[i].ret.model = call_log[i].configured
    /\ \A r1, r2 \in cache : r1.embedding[2].model = r2.embedding[2].model

(***************************************************************************)
(* C26.  Every result the search command presents has a similarity of at    *)
(* least the threshold given with --threshold.                               *)
(***************************************************************************)
C26_PresentedResultsReachThreshold ==
    cli.pc = "done" =>
        \A i \in 1..Len(cli.presented) :
            cli.presented[i].similarity >= cli.threshold

(***************************************************************************)
(* C27.  With no file-type set and a threshold that excludes no result,     *)
(* search_with_filters(queries, topN) returns the same list as              *)
(* search(queries, topN) against the same store.                             *)
(***************************************************************************)
FiltersExcludeNothing ==
    /\ f_pc = "done"
    /\ file_types \in {None, <<>>}
    /\ \A i \in 1..Len(results) : results[i].similarity >= similarity_threshold

C27_NoFilterEqualsSearch ==
    FiltersExcludeNothing => f_results = SearchOutcome(queries, rank, f_n)

\* C27 amended: under the same filters search_with_filters(queries, topN)
\* returns the first topN results of search(queries, 2 * topN); that is the
\* list search(queries, topN) returns when no query matches more than topN
\* records.
C27_NoFilterEqualsOversampledSearch ==
    FiltersExcludeNothing =>
        /\ LET wide == SearchOutcome(queries, rank, 2 * f_n)
           IN  f_results = [i \in 1..(IF Len(wide) < f_n THEN Len(wide) ELSE f_n)
                               |-> wide[i]]
        /\ (\A i \in 1..Len(queries) : Len(rank[queries[i]]) <= f_n) =>
               f_results = SearchOutcome(queries, rank, f_n)

\* The oversampled search found a second path search with topN = 2 misses.
C27_Witness ==
    /\ FiltersExcludeNothing
    /\ f_n = 2
    /\ Len(f_results) = 2
    /\ Len(SearchOutcome(queries, rank, f_n)) = 1

(***************************************************************************)
(* C28.  add_documents is not atomic.  When it is left by an exception of   *)
(* the provider or of the store, the store holds exactly the batches        *)
(* flushed before (nothing is rolled back, and the records still in the     *)
(* buffer were not written), and the cache holds the entry of every chunk   *)
(* embedded so far: those of the records flushed and buffered and those of  *)
(* the failing document that were embedded before the failure.  It returns  *)
(* normally only when nothing failed, and then every record was flushed.    *)
(***************************************************************************)
RefFlushed == Concat(added)

C28_FailureKeepsFlushedBatchesAndCache ==
    /\ (a_pc = "raised" /\ ChunkPrecondition) =>
           /\ store = RefFirstPerId(RefFlushed)
           /\ RefEntriesOf(RefFlushed) \subseteq cache
           /\ RefEntriesOf(buffer) \subseteq cache
           /\ \A i \in 1..Len(add_encoded) :
                  RefEntry(add_encoded[i]) \in cache
           /\ doc_idx <= Len(documents) \/ buffer # <<>>
    /\ (a_pc = "done" /\ ChunkPrecondition) =>
           RefFlushed = RefAllBuilt

\* The provider failed on the second document after the first document's
\* batch was flushed and after a chunk of the second document was cached.
C28_Witness ==
    /\ a_pc = "raised"
    /\ ChunkPrecondition
    /\ doc_idx = 2
    /\ Len(added) = 1
    /\ store # {}
    /\ buffer = <<>>
    /\ \E i \in 1..Len(add_encoded) :
           \A r \in store : r.document # add_encoded[i]

(***************************************************************************)
(* C29.  No step of search or search_with_filters adds, changes or deletes  *)
(* a vector record; of the persistent state such a step changes the cache   *)
(* only, and only by adding the entry of the query string it embeds when    *)
(* that string had no entry: at most one entry per step, with the           *)
(* provider's vector for the query, every other entry unchanged; and a      *)
(* query that was embedded has its entry afterwards.                         *)
(***************************************************************************)
IsSearchStep == s_pc = "loop" \/ s_pc' = "loop" \/ f_pc' # f_pc

====
